---- MODULE Spec2Model ----
(***************************************************************************)
(* A model of the Nexus/Manus agent core: the task state machine           *)
(* (manus/core/state.py), the agent loop (manus/core/loop.py), the tool    *)
(* registry (manus/tools/registry.py), the security validator              *)
(* (manus/security/validator.py) and the agent facade that the HTTP        *)
(* routes call (manus/core/agent.py, manus/api/server.py).                 *)
(*                                                                         *)
(* Python strings are TLA+ strings; Len, \o and SubSeq act on them, so     *)
(* the text the code builds and inspects (tool names, error messages,      *)
(* completion phrases) is built and inspected here character by character. *)
(* uuid4 identifiers are allocation counters, timestamps are left out.     *)
(***************************************************************************)
EXTENDS Integers, Sequences, FiniteSets, TLC

VARIABLES
    state,          \* the AgentState owned by the agent (ManusAgent.state)
    loc,            \* per caller: the frame of its execute_task call
    cpu,            \* the caller running between two awaits, or NoCaller
    running,        \* ManusAgent._running
    max_iterations, \* config.agent.max_iterations
    handler_calls,  \* the calls whose handler was invoked (observation)
    api_budget,     \* direct calls of the state machine still to be made
    shutdown_requested, \* ManusAgent._shutdown_requested
    state_file,         \* the file at ManusAgent.state_file: [exists, text]
    load_warning,       \* _load_or_create_state logged "Failed to load state file"
    probe,              \* a function called on its own: [fn, arg], or NoProbe
    verdict,            \* what that call returned or raised, None before it
    session_id,         \* AgentState.session_id, the number of the session
    archive_files,      \* the archive files written: {[session_id, file]}
    shutdown            \* the frame of ManusAgent.shutdown()

vars == <<state, loc, cpu, running, max_iterations, handler_calls, api_budget, shutdown_requested,
          state_file, load_warning, probe, verdict, session_id, archive_files, shutdown>>

----------------------------------------------------------------------------
(* Bounds of the model.                                                    *)

\* the largest config.agent.max_iterations explored
MaxIter == 4
\* the largest max_iterations explored when two calls run concurrently
ConcMaxIter == 1
\* the number of tool calls the oracle proposes in a session, after the
\* calls of its first proposal
MaxToolCalls == 3
\* the number of direct state machine calls explored
MaxApiCalls == 4
\* the number of sessions a reset may end
MaxResets == 2
\* the max_iterations of a long task: one more than the TaskContext default
LongMaxIter == 51

----------------------------------------------------------------------------
(* Text.                                                                   *)

Char(s, i) == SubSeq(s, i, i)

\* str.startswith
StartsWith(s, p) == Len(p) <= Len(s) /\ SubSeq(s, 1, Len(p)) = p

\* `sub in s`
Contains(s, sub) ==
    \E i \in 1..(Len(s) - Len(sub) + 1) : SubSeq(s, i, i + Len(sub) - 1) = sub

UpperLetters == "ABCDEFGHIJKLMNOPQRSTUVWXYZ"
LowerLetters == "abcdefghijklmnopqrstuvwxyz"
Digits == "0123456789"

LowerChar(ch) ==
    IF Contains(UpperLetters, ch)
    THEN LET i == CHOOSE k \in 1..Len(UpperLetters) : Char(UpperLetters, k) = ch
         IN  Char(LowerLetters, i)
    ELSE ch

\* str.lower, from the i-th character on
RECURSIVE LowerFrom(_, _)
LowerFrom(s, i) ==
    IF i > Len(s) THEN "" ELSE LowerChar(Char(s, i)) \o LowerFrom(s, i + 1)

\* str.lower
Lower(s) == LowerFrom(s, 1)

\* s[:n]
Truncate(s, n) == IF Len(s) <= n THEN s ELSE SubSeq(s, 1, n)

----------------------------------------------------------------------------
(* manus/core/state.py: TaskContext, Message, ToolCall and AgentState.     *)
(* An Optional[T] field is <<>> (None) or <<v>>. A TaskContext is an       *)
(* object: state.tasks is the store of the TaskContext objects allocated   *)
(* so far, in allocation order, and current_task and task_history hold     *)
(* references (task ids, the position in the store).                       *)

None == <<>>
Some(v) == <<v>>

NoTask == 0

\* TaskContext.max_iterations default
DefaultTaskMaxIterations == 50

TerminalStatuses == {"completed", "failed", "cancelled"}

\* datetime.utcnow().isoformat(): the clock is not modelled
Timestamp == "<utcnow>"

\* TaskContext(description=..., initial_prompt=...)
TaskContext(id, description, initial_prompt) ==
    [ task_id         |-> id,
      description     |-> description,
      status          |-> "pending",
      initial_prompt  |-> initial_prompt,
      current_plan    |-> <<>>,
      completed_steps |-> <<>>,
      current_step    |-> None,
      iteration_count |-> 0,
      max_iterations  |-> DefaultTaskMaxIterations,
      success_rate    |-> <<0, 1>>,
      final_result    |-> None,
      artifacts       |-> {},
      error_history   |-> <<>> ]

\* TaskContext.update_status
update_status(task, status) == [task EXCEPT !.status = status]

\* TaskContext.add_error
add_error(task, error) ==
    [task EXCEPT !.error_history = Append(@, Timestamp \o ": " \o error)]

\* TaskContext.calculate_success_rate: the rate is the pair <<successes, total>>
calculate_success_rate(task) ==
    LET successful_operations == Len(task.completed_steps)
        failed_operations     == Len(task.error_history)
        total_operations      == successful_operations + failed_operations
    IN  IF task.iteration_count = 0 THEN task
        ELSE IF total_operations = 0 THEN task
        ELSE [task EXCEPT !.success_rate = <<successful_operations, total_operations>>]

\* ToolCall(...)
ToolCall(id, tool_name, arguments, result, error, duration_ms) ==
    [ id |-> id, tool_name |-> tool_name, arguments |-> arguments,
      result |-> result, error |-> error, duration_ms |-> duration_ms ]

\* Message(...)
Message(id, role, content, tool_calls) ==
    [ id |-> id, role |-> role, content |-> content, tool_calls |-> tool_calls ]

\* AgentState(): a fresh session
FreshState ==
    [ messages         |-> <<>>,
      current_task     |-> NoTask,
      task_history     |-> <<>>,
      tasks            |-> <<>>,
      total_iterations |-> 0,
      total_tool_calls |-> 0,
      total_errors     |-> 0,
      next_id          |-> 1 ]

\* start_new_task that replaces the current task without archiving it
StartWithoutArchiving(s, description, initial_prompt) ==
    LET id == Len(s.tasks) + 1
    IN  [s EXCEPT !.tasks        = Append(@, TaskContext(id, description, initial_prompt)),
                  !.current_task = id]

\* AgentState.start_new_task; the id it returns is the new current_task
start_new_task(s, description, initial_prompt) ==
    LET id == Len(s.tasks) + 1
    IN  [s EXCEPT
            !.task_history = IF s.current_task # NoTask
                             THEN Append(@, s.current_task) ELSE @,
            !.tasks        = Append(@, TaskContext(id, description, initial_prompt)),
            !.current_task = id]

\* AgentState.add_message
add_message(s, role, content, tool_calls) ==
    [s EXCEPT !.messages = Append(@, Message(s.next_id, role, content, tool_calls)),
              !.next_id  = @ + 1]

\* AgentState.add_tool_call: `if error:` is the truth value of Optional[str]
add_tool_call(s, tool_name, arguments, result, error, duration_ms) ==
    LET tool_call == ToolCall(s.next_id, tool_name, arguments, result, error, duration_ms)
        s1 == [s EXCEPT !.next_id = @ + 1]
        n  == Len(s1.messages)
        s2 == IF n > 0 /\ s1.messages[n].role = "assistant"
              THEN [s1 EXCEPT !.messages[n].tool_calls = Append(@, tool_call)]
              ELSE add_message(s1, "assistant", "", <<tool_call>>)
    IN  [s2 EXCEPT !.total_tool_calls = @ + 1,
                   !.total_errors = IF error # None /\ error # Some("") THEN @ + 1 ELSE @]

\* update_task_progress that advances the task's counter only
UpdateProgressWithoutTotal(s, plan, current_step, completed_step) ==
    IF s.current_task = NoTask THEN s
    ELSE [s EXCEPT !.tasks[s.current_task].iteration_count = @ + 1]

\* AgentState.update_task_progress; plan is a list ([] when not given), the
\* steps are Optional[str]
update_task_progress(s, plan, current_step, completed_step) ==
    IF s.current_task = NoTask THEN s
    ELSE LET t == s.current_task
         IN  [s EXCEPT
                !.tasks[t].current_plan = IF plan # <<>> THEN plan ELSE @,
                !.tasks[t].current_step =
                    IF current_step # None /\ current_step # Some("")
                    THEN current_step ELSE @,
                !.tasks[t].completed_steps =
                    IF completed_step # None /\ completed_step # Some("")
                    THEN Append(@, completed_step[1]) ELSE @,
                !.tasks[t].iteration_count = @ + 1,
                !.total_iterations = @ + 1]

\* AgentState.complete_task (artifacts left out: no caller passes any)
complete_task(s, result) ==
    IF s.current_task = NoTask THEN s
    ELSE LET t == s.current_task
         IN  [s EXCEPT !.tasks[t] =
                calculate_success_rate(
                    [update_status(@, "completed") EXCEPT !.final_result = Some(result)])]

\* AgentState.fail_task
fail_task(s, error) ==
    IF s.current_task = NoTask THEN s
    ELSE LET t == s.current_task
         IN  [s EXCEPT !.tasks[t] = add_error(update_status(@, "failed"), error),
                       !.total_errors = @ + 1]

\* AgentState.to_json: self.json(indent=2). The models are pydantic 2 models
\* (model_config; config.py imports pydantic_settings, which needs
\* pydantic 2), where BaseModel.json is the deprecated method that raises
\* TypeError when it is given any dumps_kwargs, here indent, and otherwise
\* returns model_dump_json(): one document that holds the TaskContext
\* objects in place. The outcome is <<kind, str(e), document>>.
model_dump_json(s) ==
    [ messages         |-> s.messages,
      current_task     |-> IF s.current_task = NoTask THEN None
                           ELSE Some(s.tasks[s.current_task]),
      task_history     |-> [i \in 1..Len(s.task_history) |-> s.tasks[s.task_history[i]]],
      total_iterations |-> s.total_iterations,
      total_tool_calls |-> s.total_tool_calls,
      total_errors     |-> s.total_errors ]

to_json(s) ==
    LET dumps_kwargs == {"indent"}
    IN  IF dumps_kwargs # {}
        THEN <<"TypeError", "dumps_kwargs keyword arguments are no longer supported.", None>>
        ELSE <<"ok", "", Some(model_dump_json(s))>>

\* AgentState.from_json of a document (<<>> for text that is not one): the
\* outcome <<kind, str(e), state>>; the TaskContext objects of the parsed
\* state are new objects, in the order of the document
from_json(json_str) ==
    IF json_str = None
    THEN <<"ValidationError", "Failed to parse agent state from JSON: Invalid JSON", None>>
    ELSE LET document == json_str[1]
             n == Len(document.task_history)
         IN  <<"ok", "",
               Some([ messages         |-> document.messages,
                      current_task     |-> IF document.current_task = None
                                           THEN NoTask ELSE n + 1,
                      task_history     |-> [i \in 1..n |-> i],
                      tasks            |-> document.task_history \o document.current_task,
                      total_iterations |-> document.total_iterations,
                      total_tool_calls |-> document.total_tool_calls,
                      total_errors     |-> document.total_errors ])>>

----------------------------------------------------------------------------
(* Python's re, for the regular expressions the validator uses: a pattern  *)
(* is a sequence of atoms (a literal, a set [..], \s, \w, ., the           *)
(* zero-width \b, ^ and $), each with an optional + or *.                  *)

WhitespaceChars == " \t\n\r\f"
WordChars == LowerLetters \o UpperLetters \o Digits \o "_"

\* the characters of a set body such as a-z0-9_
RECURSIVE ExpandSet(_)
ExpandSet(body) ==
    IF body = "" THEN ""
    ELSE IF Len(body) >= 3 /\ Char(body, 2) = "-"
    THEN (CASE Char(body, 1) = "a" /\ Char(body, 3) = "z" -> LowerLetters
            [] Char(body, 1) = "A" /\ Char(body, 3) = "Z" -> UpperLetters
            [] Char(body, 1) = "0" /\ Char(body, 3) = "9" -> Digits
            [] OTHER -> SubSeq(body, 1, 3))
         \o ExpandSet(SubSeq(body, 4, Len(body)))
    ELSE Char(body, 1) \o ExpandSet(SubSeq(body, 2, Len(body)))

\* the first atom of pattern p (without its quantifier) and its length in p
FirstAtom(p) ==
    LET ch == Char(p, 1)
    IN  CASE ch = "\\" ->
               LET e == Char(p, 2)
               IN  [t |-> CASE e = "s" -> "ws" [] e = "w" -> "word"
                            [] e = "b" -> "wb" [] OTHER -> "lit",
                    chars |-> e, len |-> 2]
          [] ch = "[" ->
               LET j == CHOOSE k \in 2..Len(p) :
                            Char(p, k) = "]" /\ \A m \in 2..(k - 1) : Char(p, m) # "]"
               IN  [t |-> "set", chars |-> ExpandSet(SubSeq(p, 2, j - 1)), len |-> j]
          [] ch = "." -> [t |-> "any", chars |-> "", len |-> 1]
          [] ch = "^" -> [t |-> "bol", chars |-> "", len |-> 1]
          [] ch = "$" -> [t |-> "eol", chars |-> "", len |-> 1]
          [] OTHER    -> [t |-> "lit", chars |-> ch, len |-> 1]

\* re.compile
RECURSIVE Compile(_)
Compile(p) ==
    IF p = "" THEN <<>>
    ELSE LET a    == FirstAtom(p)
             rest == SubSeq(p, a.len + 1, Len(p))
             q    == IF rest # "" /\ Char(rest, 1) \in {"+", "*"} THEN Char(rest, 1) ELSE "1"
             tail == IF q = "1" THEN rest ELSE SubSeq(rest, 2, Len(rest))
         IN  <<[t |-> a.t, chars |-> a.chars, q |-> q]>> \o Compile(tail)

\* whether the one-character atom a accepts ch
AtomAccepts(a, ch, ignorecase) ==
    CASE a.t = "lit"  -> IF ignorecase THEN LowerChar(ch) = LowerChar(a.chars) ELSE ch = a.chars
      [] a.t = "set"  -> Contains(a.chars, ch) \/ (ignorecase /\ Contains(a.chars, LowerChar(ch)))
      [] a.t = "ws"   -> Contains(WhitespaceChars, ch)
      [] a.t = "word" -> Contains(WordChars, ch)
      [] a.t = "any"  -> ch # "\n"
      [] OTHER        -> FALSE

IsWordAt(s, i) == i >= 1 /\ i <= Len(s) /\ Contains(WordChars, Char(s, i))

\* whether the zero-width atom a holds before position i of s
ZeroWidthHolds(a, s, i) ==
    CASE a.t = "wb"  -> IsWordAt(s, i - 1) # IsWordAt(s, i)
      [] a.t = "bol" -> i = 1
      [] a.t = "eol" -> i = Len(s) + 1 \/ (i = Len(s) /\ Char(s, i) = "\n")
      [] OTHER       -> FALSE

\* whether atoms k.. of pat match s from position i on
RECURSIVE MatchFrom(_, _, _, _, _)
MatchFrom(pat, k, s, i, ignorecase) ==
    IF k > Len(pat) THEN TRUE
    ELSE LET a == pat[k]
             here == i <= Len(s) /\ AtomAccepts(a, Char(s, i), ignorecase)
         IN  IF a.t \in {"wb", "bol", "eol"}
             THEN ZeroWidthHolds(a, s, i) /\ MatchFrom(pat, k + 1, s, i, ignorecase)
             ELSE CASE a.q = "1" -> here /\ MatchFrom(pat, k + 1, s, i + 1, ignorecase)
                    [] a.q = "*" -> MatchFrom(pat, k + 1, s, i, ignorecase)
                                    \/ (here /\ MatchFrom(pat, k, s, i + 1, ignorecase))
                    [] OTHER     -> here /\ (MatchFrom(pat, k + 1, s, i + 1, ignorecase)
                                             \/ MatchFrom(pat, k, s, i + 1, ignorecase))

\* re.match(pattern, s) is not None
ReMatch(pattern, s) == MatchFrom(Compile(pattern), 1, s, 1, FALSE)

\* re.search(pattern, s, re.IGNORECASE) is not None
ReSearchI(pattern, s) ==
    LET pat == Compile(pattern)
    IN  \E i \in 1..(Len(s) + 1) : MatchFrom(pat, 1, s, i, TRUE)

----------------------------------------------------------------------------
(* manus/core/exceptions.py. An outcome is Ok (the call returned normally) *)
(* or the exception it raised: its class, str(e) and, for a SecurityError, *)
(* details["violation_type"].                                              *)

Ok == [kind |-> "ok", msg |-> "", violation_type |-> ""]
SecurityError(msg, violation_type) ==
    [kind |-> "SecurityError", msg |-> msg, violation_type |-> violation_type]
ToolError(msg) == [kind |-> "ToolError", msg |-> msg, violation_type |-> ""]
ValidationError(msg) == [kind |-> "ValidationError", msg |-> msg, violation_type |-> ""]
LLMError(msg) == [kind |-> "LLMError", msg |-> msg, violation_type |-> ""]
TimeoutError(msg) == [kind |-> "TimeoutError", msg |-> msg, violation_type |-> ""]
\* an exception of a class outside the Manus hierarchy (RuntimeError, OSError, ...)
OtherError(msg) == [kind |-> "Exception", msg |-> msg, violation_type |-> ""]

\* the first outcome that is not Ok, in order (statements run one after another)
RECURSIVE FirstFailure(_)
FirstFailure(outcomes) ==
    IF outcomes = <<>> THEN Ok
    ELSE IF Head(outcomes).kind # "ok" THEN Head(outcomes)
    ELSE FirstFailure(Tail(outcomes))


\* AgentState.save_to_file(file_path) on the file `file`: open(file_path,
\* "w") truncates the file, then to_json() is evaluated and its text
\* written; any exception becomes a ValidationError. The outcome and the
\* file left behind; a text that is no document is None.
save_to_file(s, file) ==
    IF to_json(s)[1] = "ok"
    THEN <<Ok, [exists |-> TRUE, text |-> to_json(s)[3]]>>
    ELSE <<ValidationError("Failed to save state to file: " \o to_json(s)[2]),
           [exists |-> TRUE, text |-> None]>>

\* AgentState.load_from_file(file_path): the outcome and the state
load_from_file(file) ==
    IF ~file.exists
    THEN <<ValidationError("State file not found"), None>>
    ELSE IF from_json(file.text)[1] # "ok"
    THEN <<ValidationError("Failed to load state from file: " \o from_json(file.text)[2]), None>>
    ELSE <<Ok, from_json(file.text)[3]>>

\* ManusAgent._load_or_create_state: a state file that exists is loaded, a
\* failure to load it is logged as a warning and a new state created. The
\* ids generated later (uuid4) are none of the ids in the document.
_load_or_create_state(file) ==
    IF file.exists /\ load_from_file(file)[1] = Ok
    THEN load_from_file(file)[2][1] @@
         [next_id |-> 1 + Len(load_from_file(file)[2][1].messages)
                        + load_from_file(file)[2][1].total_tool_calls]
    ELSE FreshState

----------------------------------------------------------------------------
(* Argument values: a JSON value is <<type, value>>.                       *)

JStr(v) == <<"str", v>>
JInt(v) == <<"int", v>>
JBool(v) == <<"bool", v>>
IsStr(x) == x[1] = "str"
Has(arguments, key) == key \in DOMAIN arguments

----------------------------------------------------------------------------
(* manus/security/validator.py                                             *)

ALLOWED_COMMANDS ==
    { "ls", "pwd", "echo", "cat", "grep", "find", "head", "tail",
      "wc", "sort", "uniq", "cut", "awk", "sed", "git", "pip",
      "python", "python3", "node", "npm", "curl", "wget", "mkdir",
      "touch", "cp", "mv", "chmod", "which", "whoami", "date" }

FORBIDDEN_PATTERNS ==
    << "rm\\s+-rf", "rm\\s+--recursive", ";\\s*rm", "\\|\\s*sh", "\\|\\s*bash",
       ">\\s*/dev/", "curl.*\\|.*sh", "wget.*\\|.*sh", "eval\\s*\\(", "exec\\s*\\(",
       "__import__", "subprocess\\.", "os\\.system", "os\\.popen", "dd\\s+if=",
       "mkfs\\.", "fdisk", "mount\\s+", "umount\\s+", "sudo\\s+", "su\\s+",
       "passwd\\s+", "chown\\s+", "chgrp\\s+", "systemctl\\s+", "service\\s+",
       "crontab\\s+", "nc\\s+.*-[el]", "netcat\\s+.*-[el]", "/etc/passwd",
       "/etc/shadow", "/root/", "\\.\\./", "\\.\\./\\.\\." >>

ALLOWED_BASE_PATHS == << "/app", "/tmp", "/home/manus", "/var/tmp/manus" >>

\* SecurityConfig defaults (manus/core/config.py)
allowed_domains == {"api.anthropic.com", "googleapis.com", "github.com", "pypi.org"}
blocked_ports == {22, 23, 135, 139, 445, 1433, 3389}

\* the process's working directory, against which Path.resolve() resolves a
\* relative path; the file system holds no symbolic links
Cwd == "/app"

\* the index of the first pattern of the list, from the i-th on, that
\* re.search finds in s, 0 if none
RECURSIVE FirstMatchingFrom(_, _, _)
FirstMatchingFrom(patterns, s, i) ==
    IF i > Len(patterns) THEN 0
    ELSE IF ReSearchI(patterns[i], s) THEN i
    ELSE FirstMatchingFrom(patterns, s, i + 1)

FirstMatching(patterns, s) == FirstMatchingFrom(patterns, s, 1)

\* str.strip() == ""
IsBlank(s) == \A i \in 1..Len(s) : Contains(WhitespaceChars, Char(s, i))

\* s.split(sep) for a one-character sep
RECURSIVE SplitOn(_, _)
SplitOn(s, sep) ==
    IF ~Contains(s, sep) THEN <<s>>
    ELSE LET i == CHOOSE k \in 1..Len(s) :
                    Char(s, k) = sep /\ \A m \in 1..(k - 1) : Char(s, m) # sep
         IN  <<SubSeq(s, 1, i - 1)>> \o SplitOn(SubSeq(s, i + 1, Len(s)), sep)

\* shlex.split: words separated by whitespace, '...' and "..." quote, a
\* backslash outside quotes escapes the next character; an unclosed quote
\* is a ValueError. scan(i, cur, inword, quote, acc)
RECURSIVE ShlexScan(_, _, _, _, _, _)
ShlexScan(s, i, cur, inword, quote, acc) ==
    IF i > Len(s)
    THEN IF quote # "" THEN [ok |-> FALSE, tokens |-> <<>>]
         ELSE [ok |-> TRUE, tokens |-> IF inword THEN Append(acc, cur) ELSE acc]
    ELSE LET ch == Char(s, i)
         IN  IF quote # ""
             THEN IF ch = quote THEN ShlexScan(s, i + 1, cur, TRUE, "", acc)
                  ELSE ShlexScan(s, i + 1, cur \o ch, TRUE, quote, acc)
             ELSE IF ch \in {"'", "\""} THEN ShlexScan(s, i + 1, cur, TRUE, ch, acc)
             ELSE IF ch = "\\"
                  THEN IF i = Len(s) THEN [ok |-> FALSE, tokens |-> <<>>]
                       ELSE ShlexScan(s, i + 2, cur \o Char(s, i + 1), TRUE, "", acc)
             ELSE IF Contains(WhitespaceChars, ch)
                  THEN ShlexScan(s, i + 1, "", FALSE, "",
                                 IF inword THEN Append(acc, cur) ELSE acc)
             ELSE ShlexScan(s, i + 1, cur \o ch, TRUE, "", acc)

shlex_split(s) == ShlexScan(s, 1, "", FALSE, "", <<>>)

\* int(s) for a decimal numeral; -1 stands for ValueError
RECURSIVE ParseInt(_, _)
ParseInt(s, acc) ==
    IF s = "" THEN acc
    ELSE IF ~Contains(Digits, Char(s, 1)) THEN -1
    ELSE LET d == (CHOOSE k \in 1..10 : Char(Digits, k) = Char(s, 1)) - 1
         IN  ParseInt(SubSeq(s, 2, Len(s)), acc * 10 + d)

int(s) == IF s = "" THEN -1 ELSE ParseInt(s, 0)

\* urlparse(url): the scheme (lowercased) and the netloc
UrlSchemeChars == LowerLetters \o UpperLetters \o Digits \o "+-."
urlparse(url) ==
    LET colon == IF Contains(url, ":")
                 THEN CHOOSE k \in 1..Len(url) :
                        Char(url, k) = ":" /\ \A m \in 1..(k - 1) : Char(url, m) # ":"
                 ELSE 0
        hasScheme == colon > 1
                     /\ Contains(LowerLetters \o UpperLetters, Char(url, 1))
                     /\ \A m \in 1..(colon - 1) : Contains(UrlSchemeChars, Char(url, m))
        rest == IF hasScheme THEN SubSeq(url, colon + 1, Len(url)) ELSE url
        afterSlashes == SubSeq(rest, 3, Len(rest))
        stops == {k \in 1..Len(afterSlashes) : Char(afterSlashes, k) \in {"/", "?", "#"}}
        stop == IF stops = {} THEN Len(afterSlashes) + 1
                ELSE CHOOSE k \in stops : \A m \in stops : k <= m
    IN  [ scheme |-> IF hasScheme THEN Lower(SubSeq(url, 1, colon - 1)) ELSE "",
          netloc |-> IF StartsWith(rest, "//") THEN SubSeq(afterSlashes, 1, stop - 1)
                     ELSE "" ]

EndsWith(s, suffix) ==
    Len(suffix) <= Len(s) /\ SubSeq(s, Len(s) - Len(suffix) + 1, Len(s)) = suffix

\* validate_network_request once the port is parsed: the blocked ports and
\* the allowed domains
CheckPortAndDomain(hasPort, domain, port_str, port) ==
    IF hasPort /\ port = -1
    THEN SecurityError("Invalid port in URL: " \o port_str, "invalid_port")
    ELSE IF hasPort /\ port \in blocked_ports
    THEN SecurityError("Port " \o ToString(port) \o " is blocked", "blocked_port")
    ELSE IF ~\E allowed_domain \in allowed_domains :
                domain = allowed_domain \/ EndsWith(domain, "." \o allowed_domain)
    THEN SecurityError("Domain '" \o domain \o "' is not in allowed list",
                       "unauthorized_domain")
    ELSE Ok

\* validate_network_request on the lowercased netloc and its part before
\* the first ':'
CheckNetloc(netloc, domain) ==
    IF Contains(netloc, ":")
    THEN CheckPortAndDomain(TRUE, domain, SubSeq(netloc, Len(domain) + 2, Len(netloc)),
                            int(SubSeq(netloc, Len(domain) + 2, Len(netloc))))
    ELSE CheckPortAndDomain(FALSE, domain, "", -1)

\* validate_network_request on the parsed URL
CheckParsedUrl(scheme, netloc) ==
    IF scheme \notin {"http", "https"}
    THEN SecurityError("Protocol '" \o scheme \o "' is not allowed",
                       "unauthorized_protocol")
    ELSE CheckNetloc(netloc, SplitOn(netloc, ":")[1])

\* SecurityValidator.validate_network_request
validate_network_request(url) ==
    CheckParsedUrl(urlparse(url).scheme, Lower(urlparse(url).netloc))

\* SecurityValidator.validate_python_code
DangerousPythonPatterns ==
    << "import\\s+os\\b", "from\\s+os\\s+import", "import\\s+subprocess\\b",
       "from\\s+subprocess\\s+import", "import\\s+sys\\b", "from\\s+sys\\s+import",
       "__import__\\s*\\(", "eval\\s*\\(", "exec\\s*\\(", "compile\\s*\\(",
       "open\\s*\\(", "file\\s*\\(", "input\\s*\\(", "raw_input\\s*\\(" >>

validate_python_code(code) ==
    IF code = "" \/ IsBlank(code) THEN Ok
    ELSE \* the first dangerous pattern found, if any
         IF FirstMatching(DangerousPythonPatterns, code) # 0
         THEN SecurityError("Python code contains dangerous pattern: "
                    \o DangerousPythonPatterns[FirstMatching(DangerousPythonPatterns, code)],
                    "dangerous_code")
         ELSE Ok

\* the position of the first x in the list args, 0 if absent
IndexOf(args, x) ==
    IF \E k \in 1..Len(args) : args[k] = x
    THEN CHOOSE k \in 1..Len(args) : args[k] = x /\ \A m \in 1..(k - 1) : args[m] # x
    ELSE 0

\* SecurityValidator._validate_specific_command
_validate_specific_command(command, args) ==
    IF command = "git"
    THEN IF args # <<>> /\ args[1] \in {"config", "remote"} /\ IndexOf(args, "--global") # 0
         THEN SecurityError("Global git configuration changes not allowed",
                            "unauthorized_git_operation")
         ELSE Ok
    ELSE IF command \in {"curl", "wget"}
    THEN FirstFailure([k \in 1..Len(args) |->
            IF StartsWith(args[k], "http") THEN validate_network_request(args[k]) ELSE Ok])
    ELSE IF command \in {"python", "python3"}
    THEN FirstFailure([k \in 1..2 |->
            LET flag == <<"-c", "--command">>[k]
                idx  == IndexOf(args, flag)
            IN  IF idx # 0 /\ idx + 1 <= Len(args)
                THEN validate_python_code(args[idx + 1]) ELSE Ok])
    ELSE Ok

\* tokens[0].split('/')[-1]
BaseName(token) == LET parts == SplitOn(token, "/") IN parts[Len(parts)]

\* validate_shell_command, lines 150-169: the base command of the parsed
\* tokens against the whitelist, then the command-specific rules
CheckTokens(split) ==
    IF ~split.ok
    THEN SecurityError("Failed to parse command: No closing quotation", "parse_error")
    ELSE IF split.tokens = <<>>
    THEN SecurityError("Invalid command structure", "invalid_command")
    ELSE IF BaseName(split.tokens[1]) \notin ALLOWED_COMMANDS
    THEN SecurityError("Command '" \o BaseName(split.tokens[1])
                       \o "' is not in allowed list", "unauthorized_command")
    ELSE _validate_specific_command(BaseName(split.tokens[1]), Tail(split.tokens))

\* validate_shell_command checking the base command before the forbidden
\* patterns
AllowListFirst(command, hit) ==
    IF CheckTokens(shlex_split(command)).kind # "ok"
    THEN CheckTokens(shlex_split(command))
    ELSE IF hit # 0
    THEN SecurityError("Command contains forbidden pattern: " \o FORBIDDEN_PATTERNS[hit],
                       "forbidden_pattern")
    ELSE Ok

\* validate_shell_command after the forbidden patterns are searched: hit is
\* the first pattern found, 0 if none
CheckForbidden(command, hit) ==
    IF hit # 0
    THEN SecurityError("Command contains forbidden pattern: " \o FORBIDDEN_PATTERNS[hit],
                       "forbidden_pattern")
    ELSE CheckTokens(shlex_split(command))

\* SecurityValidator.validate_shell_command
validate_shell_command(command) ==
    IF command = "" \/ IsBlank(command)
    THEN SecurityError("Empty command not allowed", "empty_command")
    ELSE CheckForbidden(command, FirstMatching(FORBIDDEN_PATTERNS, command))

\* "/".join over a list of path components, with a leading "/"
RECURSIVE JoinPath(_)
JoinPath(parts) ==
    IF parts = <<>> THEN "" ELSE "/" \o Head(parts) \o JoinPath(Tail(parts))

\* the components of a path with "", "." and ".." resolved against stack
RECURSIVE ResolveParts(_, _)
ResolveParts(parts, stack) ==
    IF parts = <<>> THEN stack
    ELSE LET c == Head(parts)
         IN  IF c \in {"", "."} THEN ResolveParts(Tail(parts), stack)
             ELSE IF c = ".."
             THEN ResolveParts(Tail(parts),
                               IF stack = <<>> THEN stack
                               ELSE SubSeq(stack, 1, Len(stack) - 1))
             ELSE ResolveParts(Tail(parts), Append(stack, c))

\* "/" for the root, else the components joined
PathOf(stack) == IF stack = <<>> THEN "/" ELSE JoinPath(stack)

\* str(Path(path).resolve())
Resolve(path) ==
    PathOf(ResolveParts(SplitOn(IF StartsWith(path, "/") THEN path
                                ELSE Cwd \o "/" \o path, "/"), <<>>))

SensitivePatterns ==
    << "/etc/passwd", "/etc/shadow", "/root/", "\\.ssh/", "\\.env", "\\.key",
       "id_rsa", "id_dsa", "\\.pem" >>

\* whether some allowed base path is a string prefix of path_str
UnderAllowedBase(path_str) ==
    \E k \in 1..Len(ALLOWED_BASE_PATHS) : StartsWith(path_str, Resolve(ALLOWED_BASE_PATHS[k]))

\* validate_file_path on the resolved path
CheckResolved(path, path_str) ==
    IF ~UnderAllowedBase(path_str)
    THEN SecurityError("Path '" \o path \o "' is outside allowed directories",
                       "path_traversal")
    ELSE IF FirstMatching(SensitivePatterns, path_str) # 0
    THEN SecurityError("Access to sensitive file '" \o path \o "' is not allowed",
                       "sensitive_file_access")
    ELSE Ok

\* SecurityValidator.validate_file_path: the outcome; on Ok the method
\* returns Resolve(path)
validate_file_path(path, operation) ==
    IF path = "" THEN SecurityError("Empty path not allowed", "empty_path")
    ELSE CheckResolved(path, Resolve(path))

\* SecurityConfig.max_file_size_mb default
max_file_size_mb == 100

\* the limit _validate_generic_arguments puts on a string argument
MaxArgumentLength == 10000

\* the limit _validate_browser_arguments puts on an xpath
MaxXPathLength == 500

SafePrefixes ==
    { "file_", "shell_", "browser_", "search_", "info_",
      "code_", "media_", "message_", "debug_", "help_" }

\* SecurityValidator._is_safe_tool_name
_is_safe_tool_name(tool_name) ==
    /\ ReMatch("^[a-z][a-z0-9_]*$", tool_name)
    /\ \E prefix \in SafePrefixes : StartsWith(tool_name, prefix)

\* SecurityValidator._validate_shell_arguments
_validate_shell_arguments(arguments) ==
    FirstFailure(<<
        IF Has(arguments, "command")
        THEN validate_shell_command(arguments.command[2]) ELSE Ok,
        IF Has(arguments, "working_directory")
        THEN validate_file_path(arguments.working_directory[2], "access") ELSE Ok >>)

\* SecurityValidator._validate_file_arguments
_validate_file_arguments(arguments) ==
    FirstFailure(<<
        IF Has(arguments, "path") THEN validate_file_path(arguments.path[2], "access") ELSE Ok,
        IF Has(arguments, "file_path")
        THEN validate_file_path(arguments.file_path[2], "access") ELSE Ok,
        IF /\ Has(arguments, "content") /\ IsStr(arguments.content)
           /\ Len(arguments.content[2]) > max_file_size_mb * 1024 * 1024
        THEN SecurityError("File content exceeds maximum size limit", "oversized_content")
        ELSE Ok >>)

\* SecurityValidator._validate_browser_arguments
_validate_browser_arguments(arguments) ==
    FirstFailure(<<
        IF Has(arguments, "url") THEN validate_network_request(arguments.url[2]) ELSE Ok,
        IF Has(arguments, "xpath")
           /\ (~IsStr(arguments.xpath) \/ Len(arguments.xpath[2]) > MaxXPathLength)
        THEN SecurityError("Invalid XPath expression", "invalid_xpath") ELSE Ok >>)

\* SecurityValidator._validate_network_arguments
_validate_network_arguments(arguments) ==
    FirstFailure(<<
        IF Has(arguments, "url") THEN validate_network_request(arguments.url[2]) ELSE Ok,
        IF Has(arguments, "domain") /\ Lower(arguments.domain[2]) \notin allowed_domains
        THEN SecurityError("Domain '" \o Lower(arguments.domain[2]) \o "' is not allowed",
                           "unauthorized_domain")
        ELSE Ok >>)

\* SecurityValidator._validate_generic_arguments (the injection patterns are
\* only logged)
_validate_generic_arguments(arguments) ==
    LET long == {key \in DOMAIN arguments :
                    IsStr(arguments[key]) /\ Len(arguments[key][2]) > MaxArgumentLength}
    IN  IF long # {}
        THEN SecurityError("Argument '" \o (CHOOSE key \in long : TRUE)
                           \o "' exceeds maximum length", "oversized_argument")
        ELSE Ok

\* validate_tool_call running the generic scan before the category rule
GenericScanFirst(tool_name, arguments) ==
    IF ~_is_safe_tool_name(tool_name)
    THEN SecurityError("Tool '" \o tool_name \o "' is not allowed", "unauthorized_tool")
    ELSE FirstFailure(<<
            _validate_generic_arguments(arguments),
            CASE StartsWith(tool_name, "shell_")   -> _validate_shell_arguments(arguments)
              [] StartsWith(tool_name, "file_")    -> _validate_file_arguments(arguments)
              [] StartsWith(tool_name, "browser_") -> _validate_browser_arguments(arguments)
              [] StartsWith(tool_name, "network_") -> _validate_network_arguments(arguments)
              [] OTHER -> Ok >>)

\* SecurityValidator.validate_tool_call
validate_tool_call(tool_name, arguments) ==
    IF ~_is_safe_tool_name(tool_name)
    THEN SecurityError("Tool '" \o tool_name \o "' is not allowed", "unauthorized_tool")
    ELSE FirstFailure(<<
            CASE StartsWith(tool_name, "shell_")   -> _validate_shell_arguments(arguments)
              [] StartsWith(tool_name, "file_")    -> _validate_file_arguments(arguments)
              [] StartsWith(tool_name, "browser_") -> _validate_browser_arguments(arguments)
              [] StartsWith(tool_name, "network_") -> _validate_network_arguments(arguments)
              [] OTHER -> Ok,
            _validate_generic_arguments(arguments) >>)

----------------------------------------------------------------------------
(* manus/tools/registry.py. The registry holds the built-in tools          *)
(* (_register_builtin_tools): the file_ methods of FileTools, the shell_   *)
(* methods of ShellTools and three placeholders. A schema is the required  *)
(* keys and the declared type of each property, as _extract_tool_schema    *)
(* derives them from the signature (a parameter annotated Optional[..]     *)
(* is declared "string").                                                  *)

Schema(required, properties) == [required |-> required, properties |-> properties]

schemas ==
    [ file_read   |-> Schema(<<"path">>, [path |-> "string", encoding |-> "string"]),
      file_write  |-> Schema(<<"path", "content">>,
                             [path |-> "string", content |-> "string",
                              encoding |-> "string", backup |-> "boolean"]),
      file_append |-> Schema(<<"path", "content">>,
                             [path |-> "string", content |-> "string", encoding |-> "string"]),
      file_delete |-> Schema(<<"path">>, [path |-> "string", confirm |-> "boolean"]),
      file_copy   |-> Schema(<<"source", "destination">>,
                             [source |-> "string", destination |-> "string",
                              overwrite |-> "boolean"]),
      file_move   |-> Schema(<<"source", "destination">>,
                             [source |-> "string", destination |-> "string",
                              overwrite |-> "boolean"]),
      file_list   |-> Schema(<<"directory">>, [directory |-> "string", pattern |-> "string"]),
      file_info   |-> Schema(<<"path">>, [path |-> "string"]),
      shell_exec  |-> Schema(<<"command">>,
                             [command |-> "string", timeout |-> "string",
                              capture_output |-> "boolean", working_directory |-> "string"]),
      shell_which |-> Schema(<<"command">>, [command |-> "string"]),
      shell_pwd   |-> Schema(<<>>, <<>>),
      shell_cd    |-> Schema(<<"directory">>, [directory |-> "string"]),
      shell_ls    |-> Schema(<<>>, [path |-> "string", all_files |-> "boolean",
                                    long_format |-> "boolean"]),
      shell_cat   |-> Schema(<<"file_path">>, [file_path |-> "string", lines |-> "string"]),
      shell_grep  |-> Schema(<<"pattern">>,
                             [pattern |-> "string", file_path |-> "string",
                              recursive |-> "boolean", case_insensitive |-> "boolean",
                              line_numbers |-> "boolean"]),
      shell_find  |-> Schema(<<>>, [search_path |-> "string", name_pattern |-> "string",
                                    file_type |-> "string", max_depth |-> "string"]),
      shell_env   |-> Schema(<<>>, <<>>),
      shell_ps    |-> Schema(<<>>, <<>>),
      browser_navigate |-> Schema(<<"url">>, [url |-> "string"]),
      browser_click    |-> Schema(<<"xpath">>, [xpath |-> "string"]),
      search_web       |-> Schema(<<"query">>, [query |-> "string"]) ]

\* ToolRegistry.tools: the registered names
tools == DOMAIN schemas

\* the placeholders raise ToolError whatever their arguments
PlaceholderTools == {"browser_navigate", "browser_click", "search_web"}

\* ToolRegistry._validate_argument_type (a Python bool is an int)
_validate_argument_type(name, value, expected_type) ==
    LET actual == value[1]
        fails(what) == ValidationError("Argument '" \o name \o "' must be " \o what)
    IN  CASE expected_type = "string"  /\ actual # "str" -> fails("a string")
          [] expected_type = "integer" /\ actual \notin {"int", "bool"} -> fails("an integer")
          [] expected_type = "number"  /\ actual \notin {"int", "bool", "float"} ->
                fails("a number")
          [] expected_type = "boolean" /\ actual # "bool" -> fails("a boolean")
          [] expected_type = "array"   /\ actual # "list" -> fails("an array")
          [] expected_type = "object"  /\ actual # "dict" -> fails("an object")
          [] OTHER -> Ok

\* ToolRegistry._validate_arguments
_validate_arguments(tool_name, arguments) ==
    LET schema  == schemas[tool_name]
        missing == {k \in 1..Len(schema.required) : ~Has(arguments, schema.required[k])}
        first   == CHOOSE k \in missing : \A m \in missing : k <= m
        typed   == {key \in DOMAIN arguments :
                        /\ key \in DOMAIN schema.properties
                        /\ _validate_argument_type(key, arguments[key],
                                                   schema.properties[key]).kind # "ok"}
        bad     == CHOOSE key \in typed : TRUE
    IN  IF missing # {}
        THEN ValidationError("Missing required argument: " \o schema.required[first])
        ELSE IF typed # {}
        THEN _validate_argument_type(bad, arguments[bad], schema.properties[bad])
        ELSE Ok

\* ToolRegistry.execute_tool, lines 248-263: an exception that is neither a
\* ToolError nor a ValidationError is wrapped into a ToolError
WrapUnexpected(e) ==
    IF e.kind \in {"ok", "ToolError", "ValidationError"} THEN e
    ELSE ToolError("Tool execution failed: " \o e.msg)

\* execute_tool with its security validation left out
SkipSecurityValidation(name, arguments) == Ok

\* ToolRegistry.execute_tool, lines 229-231: the security validation
registry_security_validation(name, arguments) == validate_tool_call(name, arguments)

\* execute_tool without the lookup of the name in the registry
GateWithoutLookup(name, arguments) ==
    WrapUnexpected(FirstFailure(<<IF name \in tools THEN _validate_arguments(name, arguments)
                                  ELSE Ok,
                                  registry_security_validation(name, arguments)>>))

\* execute_tool consulting the security validator before the schema
GateSecurityFirst(name, arguments) ==
    IF name \notin tools
    THEN ToolError("Tool '" \o name \o "' not found in registry")
    ELSE WrapUnexpected(FirstFailure(<<registry_security_validation(name, arguments),
                                       _validate_arguments(name, arguments)>>))

\* ToolRegistry.execute_tool up to the handler: Ok when the handler is
\* invoked, else the exception execute_tool raises without invoking it
execute_tool_gate(name, arguments) ==
    IF name \notin tools
    THEN ToolError("Tool '" \o name \o "' not found in registry")
    ELSE WrapUnexpected(FirstFailure(<<_validate_arguments(name, arguments),
                                       registry_security_validation(name, arguments)>>))

\* what a handler may do once invoked: return a value or raise
HandlerOutcomes(name) ==
    IF name \in PlaceholderTools
    THEN {ToolError("Tool search_web is not yet implemented")}
    ELSE {[kind |-> "ok", msg |-> "result of " \o name, violation_type |-> ""],
          OtherError("[Errno 5] Input/output error")}

----------------------------------------------------------------------------
(* manus/core/llm_providers.py: the bundled oracle, ManusReasoningProvider *)
(* (MockProvider is an alias of it, create_llm_provider returns it for     *)
(* provider "mock"). Its answer is a function of the latest user message.  *)

\* any(word in message_lower for word in words)
AnyWordIn(words, message) == \E word \in words : Contains(Lower(message), word)

\* ManusReasoningProvider._extract_user_message over the messages that
\* get_context_for_llm hands over: the last 20 of the conversation
_extract_user_message(messages) ==
    LET first == IF Len(messages) > 20 THEN Len(messages) - 19 ELSE 1
        users == {i \in first..Len(messages) : messages[i].role = "user"}
    IN  IF users = {} THEN ""
        ELSE messages[CHOOSE i \in users : \A j \in users : j <= i].content

\* ManusReasoningProvider._determine_approach
_determine_approach(user_message) ==
    IF AnyWordIn({"create", "write", "make", "generate"}, user_message)
    THEN "file_manipulation"
    ELSE IF AnyWordIn({"list", "show", "display", "find", "search"}, user_message)
    THEN "information_gathering"
    ELSE IF AnyWordIn({"run", "execute", "command", "system"}, user_message)
    THEN "system_interaction"
    ELSE "simple_execution"

\* the response every branch of the provider builds: one tool call with the
\* id "call_1" and is_complete False
MockResponse(text_content, name, input) ==
    [ text_content |-> text_content,
      tool_calls   |-> <<[id |-> "call_1", name |-> name, input |-> input]>>,
      is_complete  |-> FALSE ]

\* ManusReasoningProvider._execute_file_creation
_execute_file_creation(user_message) ==
    IF AnyWordIn({"python", "script"}, user_message)
    THEN MockResponse("I'll create a Python script template for you with a proper structure.",
                      "file_write",
                      [path |-> JStr("script.py"), content |-> JStr("<script template>")])
    ELSE IF AnyWordIn({"readme", "documentation"}, user_message)
    THEN MockResponse("I'll create a README.md file with a basic documentation template.",
                      "file_write",
                      [path |-> JStr("README.md"), content |-> JStr("<readme template>")])
    ELSE MockResponse("I'll create a text file documenting your request.",
                      "file_write",
                      [path |-> JStr("note.txt"),
                       content |-> JStr("Note created by Nexus Agent\n\nRequest: "
                                        \o user_message \o "\nCreated: <now>\n")])

\* ManusReasoningProvider._execute_shell_command
_execute_shell_command(user_message) ==
    IF AnyWordIn({"date", "time", "today", "current date", "what day", "when is", "now"},
                 user_message)
    THEN MockResponse("I'll check the current date and time for you.", "shell_exec",
                      [command |-> JStr("date")])
    ELSE IF AnyWordIn({"system", "info", "computer", "uname", "os", "operating system",
                       "machine"}, user_message)
    THEN MockResponse("I'll get comprehensive system information for you.", "shell_exec",
                      [command |-> JStr("uname -a && echo '---' && sw_vers 2>/dev/null || lsb_release -a 2>/dev/null || cat /etc/os-release 2>/dev/null")])
    ELSE IF AnyWordIn({"process", "running", "ps"}, user_message)
    THEN MockResponse("I'll show you the running processes.", "shell_exec",
                      [command |-> JStr("ps aux | head -10")])
    ELSE IF AnyWordIn({"memory", "ram", "usage"}, user_message)
    THEN MockResponse("I'll check memory usage for you.", "shell_exec",
                      [command |-> JStr("free -h 2>/dev/null || vm_stat | head -10")])
    ELSE IF AnyWordIn({"disk", "space", "storage"}, user_message)
    THEN MockResponse("I'll check disk space for you.", "shell_exec",
                      [command |-> JStr("df -h .")])
    ELSE MockResponse("I'll show you the current directory and its contents.", "shell_exec",
                      [command |-> JStr("pwd && ls -la")])

\* ManusReasoningProvider._execute_file_listing
_execute_file_listing(user_message) ==
    IF AnyWordIn({"parent", ".."}, user_message)
    THEN MockResponse("I'll list files in the parent directory.", "file_list",
                      [directory |-> JStr("..")])
    ELSE IF AnyWordIn({"root", "/"}, user_message)
    THEN MockResponse("I'll list files in the current directory for security.", "file_list",
                      [directory |-> JStr(".")])
    ELSE MockResponse("I'll list the files in the current directory.", "file_list",
                      [directory |-> JStr(".")])

\* ManusReasoningProvider._execute_default_response (reached through
\* _execute_adaptive_response, whose action carries no details)
_execute_default_response(user_message) ==
    MockResponse("I'm analyzing your request: \"" \o user_message
                 \o "\"\n\nAs an autonomous AI agent, I can help with:\n"
                 \o "- File operations and management\n"
                 \o "- System administration tasks\n"
                 \o "- Code development and scripting\n"
                 \o "- Information gathering and analysis\n"
                 \o "- Workflow automation\n\n"
                 \o "Let me start by understanding our current environment:",
                 "file_list", [directory |-> JStr(".")])

\* ManusReasoningProvider.generate_response: the approach is determined
\* (_initial_analysis_and_planning), the plan verified (_verify_plan, whose
\* any() of a bool raises TypeError for a file_manipulation plan of a
\* message without "create" and "write"), the action selected
\* (_select_simple_action) and executed (_execute_direct_tool or
\* _execute_adaptive_response). The response, or None when it raises.
generate_response(user_message) ==
    CASE _determine_approach(user_message) = "file_manipulation" ->
            IF AnyWordIn({"create", "write"}, user_message)
            THEN Some(_execute_file_creation(user_message))
            ELSE None
      [] _determine_approach(user_message) = "information_gathering" ->
            Some(_execute_file_listing(user_message))
      [] _determine_approach(user_message) = "system_interaction" ->
            Some(_execute_shell_command(user_message))
      [] OTHER -> Some(_execute_default_response(user_message))

----------------------------------------------------------------------------
(* The inputs explored.                                                    *)

\* the callers of ManusAgent.execute_task on the global agent: the POST /task
\* and POST /chat routes of manus/api/server.py
Callers == {"task", "chat"}
NoCaller == "none"
NoProbe == [fn |-> "none", arg |-> ""]

Prompts == [task |-> "list the files", chat |-> "hello"]

\* tool calls an oracle may propose: {id, name, input}
ReadNotes   == [id |-> "tc_read", name |-> "file_read",
                input |-> [path |-> JStr("/tmp/notes.txt")]]
Frobnicate  == [id |-> "tc_frob", name |-> "file_frobnicate",
                input |-> [path |-> JStr("/tmp/notes.txt")]]
NetworkFetch == [id |-> "tc_net", name |-> "network_fetch",
                 input |-> [url |-> JStr("https://github.com/x")]]
RemoveAll   == [id |-> "tc_rm", name |-> "shell_exec",
                input |-> [command |-> JStr("rm -rf /")]]
ReadNoPath  == [id |-> "tc_nopath", name |-> "file_read",
                input |-> [encoding |-> JStr("utf-8")]]
SearchWeb   == [id |-> "tc_search", name |-> "search_web",
                input |-> [query |-> JStr("tla")]]

ToolCallPool == {ReadNotes, Frobnicate, NetworkFetch, RemoveAll, ReadNoPath, SearchWeb}

\* the latest user message the bundled oracle may find in its context: a
\* prompt, or none
UserMessages == {Prompts[c] : c \in Callers} \cup {""}

\* ManusReasoningProvider.generate_response on each of them
mock_answers == [user_message \in UserMessages |-> generate_response(user_message)]

\* the tool calls the bundled oracle proposes for them
MockCalls == {mock_answers[user_message][1].tool_calls[1] : user_message \in UserMessages}

\* SecurityValidator.validate_tool_call on each call of the pool (loop.py 295
\* calls it before execute_tool)
validator_verdict ==
    [call \in ToolCallPool \cup MockCalls |-> validate_tool_call(call.name, call.input)]

\* loop.py 298: tool_registry.execute_tool on each call of the pool, up to the
\* handler
execute_tool_entry ==
    [call \in ToolCallPool \cup MockCalls |-> execute_tool_gate(call.name, call.input)]

\* the tool_calls lists an oracle response may carry
Proposals ==
    { <<>>, <<ReadNotes>>, <<Frobnicate, NetworkFetch>>,
      <<RemoveAll, ReadNoPath, SearchWeb>> }

\* the responses of the oracle: {text_content, tool_calls, is_complete}
Responses ==
    { [text_content |-> r[1], tool_calls |-> calls, is_complete |-> r[2]] :
        r \in { <<"Working on it", FALSE>>, <<"Working on it", TRUE>>,
                <<"The Task Complete: done", FALSE>> },
        calls \in Proposals }

\* int((time.time() - start_time) * 1000)
Durations == {12}

----------------------------------------------------------------------------
(* manus/core/loop.py: AgentLoop. loc[c] is the frame of caller c's        *)
(* execute_task call; its pc is the place the call has reached. A call     *)
(* runs without interruption between two awaits (cpu = c); at an await     *)
(* (the oracle, a tool handler, asyncio.sleep) it gives the event loop     *)
(* up (cpu = NoCaller) and any caller may run.                             *)

IdleFrame ==
    [ pc             |-> "idle",
      task_id        |-> NoTask,
      iteration      |-> 0,
      max_iterations |-> 0,
      llm_response   |-> [text_content |-> "", tool_calls |-> <<>>, is_complete |-> FALSE],
      todo           |-> <<>>,
      tool_results   |-> <<>>,
      error          |-> Ok,
      result         |-> None,
      message_id     |-> 0,   \* the id of the iteration's assistant message
                              \* (add_message returns it; observation)
      oracle_calls   |-> 0,   \* the oracle calls made so far (observation)
      oracle_log     |-> <<>> ] \* their outcomes in order: <<response>>, or
                                \* <<>> for a call that raised (observation)

\* the frame of shutdown(): its place, the local `timeout`, and what it did
\* (observation): the sleeps it started, whether it logged the forced
\* shutdown, the outcome of its save, whether the resources were released
\* and whether a call was still in flight then
IdleShutdown ==
    [ pc |-> "idle", timeout |-> 0, sleeps |-> 0, forced |-> FALSE, saved |-> Ok,
      cleaned |-> FALSE, in_flight |-> FALSE ]

\* agent.py 272: timeout = 30
GracePeriod == 30

\* the places of a call between its start_new_task and its complete_task or
\* fail_task
InFlightPcs == {"iter_top", "await_oracle", "actions", "await_tool", "except", "await_sleep"}

\* config.agent.max_tool_calls_per_iteration default
max_tool_calls_per_iteration == 5

\* config.agent.timeout_seconds default
timeout_seconds == 300

completion_indicators ==
    { "task complete", "task finished", "successfully completed",
      "objective achieved", "goal accomplished" }

\* AgentLoop._evaluate_completion
_evaluate_completion(llm_response) ==
    \/ llm_response.is_complete
    \/ \E text_lower \in {Lower(llm_response.text_content)} :
            \E indicator \in completion_indicators : Contains(text_lower, indicator)

\* AgentLoop._extract_final_result
_extract_final_result(s) ==
    LET assistants == {i \in 1..Len(s.messages) : s.messages[i].role = "assistant"}
    IN  IF s.messages = <<>> THEN "Task completed without explicit result"
        ELSE IF assistants # {}
        THEN s.messages[CHOOSE i \in assistants : \A j \in assistants : j <= i].content
        ELSE "Task completed"

\* "\n".join(observations)
RECURSIVE JoinLines(_)
JoinLines(lines) ==
    IF lines = <<>> THEN ""
    ELSE IF Len(lines) = 1 THEN lines[1]
    ELSE lines[1] \o "\n" \o JoinLines(Tail(lines))

\* AgentLoop._process_observations: the state after it
_process_observations(s, tool_results) ==
    LET observations == [i \in 1..Len(tool_results) |->
            IF tool_results[i].success
            THEN "Tool executed successfully: " \o tool_results[i].text
            ELSE "Tool execution failed: " \o tool_results[i].text]
    IN  IF observations # <<>> THEN add_message(s, "tool", JoinLines(observations), <<>>)
        ELSE s

\* a recovery policy that retries transient errors through the fourth iteration
RetryThroughFourthIteration(error, iteration) ==
    IF error.kind \in {"LLMError", "ToolError"} /\ iteration <= 3 THEN "retry"
    ELSE IF error.kind = "SecurityError" THEN "degrade"
    ELSE "abort"

\* AgentLoop._attempt_recovery: "retry" (continue after asyncio.sleep(1)),
\* "degrade" (continue after a system message) or "abort"
_attempt_recovery(error, iteration) ==
    IF error.kind \in {"LLMError", "ToolError"} /\ iteration < 3 THEN "retry"
    ELSE IF error.kind = "SecurityError" THEN "degrade"
    ELSE "abort"

\* the error handler adding the error to the task its own call started
OwnTaskOfCall(s, own_task_id) == own_task_id

\* the task the loop's error handler adds the error to (loop.py 125-126)
ErrorTask(s, own_task_id) == s.current_task

\* ManusAgent.execute_task 106-123 and AgentLoop.execute_task 72-86
Begin(c) ==
    /\ loc[c].pc = "idle"
    /\ cpu = NoCaller
    /\ ~shutdown_requested
    /\ LET prompt == Prompts[c]
           s1 == start_new_task(state, "Execute: " \o Truncate(prompt, 100) \o "...", prompt)
       IN  /\ state' = add_message(s1, "user", prompt, <<>>)
           /\ loc' = [loc EXCEPT ![c] = [IdleFrame EXCEPT
                        !.pc = "iter_top",
                        !.task_id = s1.current_task,
                        !.max_iterations = max_iterations]]
    /\ running' = TRUE
    /\ cpu' = c
    /\ UNCHANGED <<max_iterations, handler_calls, api_budget, shutdown_requested,
                   state_file, load_warning,
                   session_id, archive_files, shutdown, probe, verdict>>

\* a loop that starts over when its iterations are used up
RestartWhenExhausted(c) ==
    /\ loc[c].pc = "iter_top"
    /\ cpu = c
    /\ loc[c].iteration >= loc[c].max_iterations
    /\ loc' = [loc EXCEPT ![c].iteration = 0]
    /\ UNCHANGED <<state, cpu, running, max_iterations, handler_calls, api_budget,
                   shutdown_requested, state_file, load_warning,
                   session_id, archive_files, shutdown, probe, verdict>>

\* loop.py 136-140: the for loop is exhausted
Exhausted(c) ==
    /\ loc[c].pc = "iter_top"
    /\ cpu = c
    /\ loc[c].iteration >= loc[c].max_iterations
    /\ LET error_msg == "Task exceeded maximum iterations ("
                        \o ToString(loc[c].max_iterations) \o ")"
       IN  /\ state' = fail_task(state, error_msg)
           /\ loc' = [loc EXCEPT ![c].pc = "loop_returned",
                                 ![c].result = Some(<<FALSE, error_msg>>)]
    /\ UNCHANGED <<cpu, running, max_iterations, handler_calls, api_budget, shutdown_requested,
                   state_file, load_warning,
                   session_id, archive_files, shutdown, probe, verdict>>

\* loop.py 92-98: the deadline has passed at the top of the iteration
TimedOut(c) ==
    /\ loc[c].pc = "iter_top"
    /\ cpu = c
    /\ loc[c].iteration < loc[c].max_iterations
    /\ loc' = [loc EXCEPT ![c].pc = "except",
                          ![c].error = TimeoutError("Task exceeded timeout of "
                                            \o ToString(timeout_seconds) \o "s")]
    /\ UNCHANGED <<state, cpu, running, max_iterations, handler_calls, api_budget, shutdown_requested,
                   state_file, load_warning,
                   session_id, archive_files, shutdown, probe, verdict>>

\* loop.py 100-102, 156-159, 222-230: the deadline has not passed; the
\* context is built and the oracle awaited
CallOracle(c) ==
    /\ loc[c].pc = "iter_top"
    /\ cpu = c
    /\ loc[c].iteration < loc[c].max_iterations
    /\ loc' = [loc EXCEPT ![c].pc = "await_oracle",
                          ![c].oracle_calls = @ + 1,
                          ![c].tool_results = <<>>]
    /\ cpu' = NoCaller
    /\ UNCHANGED <<state, running, max_iterations, handler_calls, api_budget, shutdown_requested,
                   state_file, load_warning,
                   session_id, archive_files, shutdown, probe, verdict>>

\* loop.py 233, 271-283: the oracle returns; the assistant message is recorded
OracleReturns(c, menu) ==
    /\ loc[c].pc = "await_oracle"
    /\ cpu = NoCaller
    /\ \E response \in menu :
        /\ \/ state.total_tool_calls = 0
           \/ state.total_tool_calls + Len(response.tool_calls) <= MaxToolCalls
        /\ state' = add_message(state, "assistant", response.text_content, <<>>)
        /\ loc' = [loc EXCEPT ![c].pc = "actions",
                              ![c].llm_response = response,
                              ![c].message_id = state.next_id,
                              ![c].oracle_log = Append(@, Some(response)),
                              ![c].todo = response.tool_calls]
    /\ cpu' = c
    /\ UNCHANGED <<running, max_iterations, handler_calls, api_budget, shutdown_requested,
                   state_file, load_warning,
                   session_id, archive_files, shutdown, probe, verdict>>

\* loop.py 235-240: the oracle raises; the loop raises LLMError
OracleRaises(c) ==
    /\ loc[c].pc = "await_oracle"
    /\ cpu = NoCaller
    /\ loc' = [loc EXCEPT ![c].pc = "except",
                          ![c].oracle_log = Append(@, None),
                          ![c].error = LLMError("Failed to get LLM response: "
                                                \o "Connection refused")]
    /\ cpu' = c
    /\ UNCHANGED <<state, running, max_iterations, handler_calls, api_budget, shutdown_requested,
                   state_file, load_warning,
                   session_id, archive_files, shutdown, probe, verdict>>

\* loop.py 222-240 with the bundled oracle: generate_response answers from
\* the latest user message of the context; its response is recorded as the
\* assistant message, its exception becomes an LLMError
MockOracleReturns(c) ==
    /\ loc[c].pc = "await_oracle"
    /\ cpu = NoCaller
    /\ \E answer \in {mock_answers[_extract_user_message(state.messages)]} :
          IF answer = None
          THEN /\ loc' = [loc EXCEPT ![c].pc = "except",
                                     ![c].oracle_log = Append(@, None),
                                     ![c].error = LLMError("Failed to get LLM response: "
                                                     \o "'bool' object is not iterable")]
               /\ UNCHANGED state
          ELSE /\ state' = add_message(state, "assistant", answer[1].text_content, <<>>)
               /\ loc' = [loc EXCEPT ![c].pc = "actions",
                                     ![c].llm_response = answer[1],
                                     ![c].message_id = state.next_id,
                                     ![c].oracle_log = Append(@, answer),
                                     ![c].todo = answer[1].tool_calls]
    /\ cpu' = c
    /\ UNCHANGED <<running, max_iterations, handler_calls, api_budget, shutdown_requested,
                   state_file, load_warning, probe, verdict, session_id, archive_files,
                   shutdown>>

\* one entry of _execute_actions' results
ToolResult(call, success, text) == [tool_call_id |-> call.id, success |-> success, text |-> text]

\* loop.py 292-295, 322-336: the validator rejects the next proposed call
RejectCall(c) ==
    /\ loc[c].pc = "actions"
    /\ cpu = c
    /\ loc[c].todo # <<>>
    /\ LET call == Head(loc[c].todo)
           e == validator_verdict[call]
           error_msg == "Security violation in tool " \o call.name \o ": " \o e.msg
       IN  /\ e.kind # "ok"
           /\ state' = add_tool_call(state, call.name, call.input, None, Some(error_msg), None)
           /\ loc' = [loc EXCEPT ![c].todo = Tail(@),
                                 ![c].tool_results = Append(@, ToolResult(call, FALSE, error_msg))]
    /\ UNCHANGED <<cpu, running, max_iterations, handler_calls, api_budget, shutdown_requested,
                   state_file, load_warning,
                   session_id, archive_files, shutdown, probe, verdict>>

\* loop.py 292-302, 338-352: the validator accepts the call and execute_tool
\* raises before it invokes a handler
FailDispatch(c) ==
    /\ loc[c].pc = "actions"
    /\ cpu = c
    /\ loc[c].todo # <<>>
    /\ LET call == Head(loc[c].todo)
           e == execute_tool_entry[call]
           error_msg == "Tool execution failed: " \o e.msg
       IN  /\ validator_verdict[call].kind = "ok"
           /\ e.kind # "ok"
           /\ state' = add_tool_call(state, call.name, call.input, None, Some(error_msg), None)
           /\ loc' = [loc EXCEPT ![c].todo = Tail(@),
                                 ![c].tool_results = Append(@, ToolResult(call, FALSE, error_msg))]
    /\ UNCHANGED <<cpu, running, max_iterations, handler_calls, api_budget, shutdown_requested,
                   state_file, load_warning,
                   session_id, archive_files, shutdown, probe, verdict>>

\* loop.py 292-302, registry.py 234-241: the validator accepts the call,
\* execute_tool invokes the handler and awaits it
Dispatch(c) ==
    /\ loc[c].pc = "actions"
    /\ cpu = c
    /\ loc[c].todo # <<>>
    /\ LET call == Head(loc[c].todo)
       IN  /\ validator_verdict[call].kind = "ok"
           /\ execute_tool_entry[call].kind = "ok"
           /\ handler_calls' = handler_calls \cup {call}
    /\ loc' = [loc EXCEPT ![c].pc = "await_tool"]
    /\ cpu' = NoCaller
    /\ UNCHANGED <<state, running, max_iterations, api_budget, shutdown_requested,
                   state_file, load_warning,
                   session_id, archive_files, shutdown, probe, verdict>>

\* registry.py 243-263, loop.py 303-318 and 338-352: the handler returns or
\* raises; the outcome is recorded
ToolReturns(c) ==
    /\ loc[c].pc = "await_tool"
    /\ cpu = NoCaller
    /\ LET call == Head(loc[c].todo)
       IN  \E outcome \in HandlerOutcomes(call.name), duration_ms \in Durations :
            LET e == WrapUnexpected(outcome)
                error_msg == "Tool execution failed: " \o e.msg
            IN  IF e.kind = "ok"
                THEN /\ state' = add_tool_call(state, call.name, call.input,
                                               Some(e.msg), None, Some(duration_ms))
                     /\ loc' = [loc EXCEPT
                            ![c].pc = "actions", ![c].todo = Tail(@),
                            ![c].tool_results = Append(@, ToolResult(call, TRUE, e.msg))]
                ELSE /\ state' = add_tool_call(state, call.name, call.input,
                                               None, Some(error_msg), None)
                     /\ loc' = [loc EXCEPT
                            ![c].pc = "actions", ![c].todo = Tail(@),
                            ![c].tool_results = Append(@, ToolResult(call, FALSE, error_msg))]
    /\ cpu' = c
    /\ UNCHANGED <<running, max_iterations, handler_calls, api_budget, shutdown_requested,
                   state_file, load_warning,
                   session_id, archive_files, shutdown, probe, verdict>>

\* loop.py 164-173 and 107-117: every proposed call is processed; observe,
\* reflect, update the progress and complete the task or go on
Reflect(c) ==
    /\ loc[c].pc = "actions"
    /\ cpu = c
    /\ loc[c].todo = <<>>
    /\ \E s1 \in {_process_observations(state, loc[c].tool_results)} :
       \E s2 \in {update_task_progress(s1, <<>>, None, None)} :
       \E final_result \in {_extract_final_result(s2)} :
       \E is_complete \in {_evaluate_completion(loc[c].llm_response)} :
           IF is_complete
           THEN /\ state' = complete_task(s2, final_result)
                /\ loc' = [loc EXCEPT ![c].pc = "loop_returned",
                                      ![c].result = Some(<<TRUE, final_result>>)]
           ELSE /\ state' = s2
                /\ loc' = [loc EXCEPT ![c].pc = "iter_top", ![c].iteration = @ + 1]
    /\ UNCHANGED <<cpu, running, max_iterations, handler_calls, api_budget, shutdown_requested,
                   state_file, load_warning,
                   session_id, archive_files, shutdown, probe, verdict>>

\* loop.py 119-134: the handler of an exception raised in the iteration
HandleError(c) ==
    /\ loc[c].pc = "except"
    /\ cpu = c
    /\ LET e == loc[c].error
           error_msg == "Error in iteration " \o ToString(loc[c].iteration + 1)
                        \o ": " \o e.msg
           target == ErrorTask(state, loc[c].task_id)
           s1 == IF state.current_task # NoTask
                 THEN [state EXCEPT !.tasks[target] = add_error(@, error_msg)]
                 ELSE state
           recovery == _attempt_recovery(e, loc[c].iteration)
       IN  CASE recovery = "retry" ->
                    /\ state' = s1
                    /\ loc' = [loc EXCEPT ![c].pc = "await_sleep"]
                    /\ cpu' = NoCaller
             [] recovery = "degrade" ->
                    /\ state' = add_message(s1, "system",
                            "Security error occurred: " \o e.msg
                            \o ". Please modify your approach.", <<>>)
                    /\ loc' = [loc EXCEPT ![c].pc = "iter_top", ![c].iteration = @ + 1]
                    /\ cpu' = cpu
             [] OTHER ->
                    /\ state' = fail_task(s1, error_msg)
                    /\ loc' = [loc EXCEPT ![c].pc = "loop_returned",
                                ![c].result = Some(<<FALSE, "Task failed: " \o error_msg>>)]
                    /\ cpu' = cpu
    /\ UNCHANGED <<running, max_iterations, handler_calls, api_budget, shutdown_requested,
                   state_file, load_warning,
                   session_id, archive_files, shutdown, probe, verdict>>

\* loop.py 421-422, 129-130: asyncio.sleep(1) returns and the loop continues
SleepReturns(c) ==
    /\ loc[c].pc = "await_sleep"
    /\ cpu = NoCaller
    /\ loc' = [loc EXCEPT ![c].pc = "iter_top", ![c].iteration = @ + 1]
    /\ cpu' = c
    /\ UNCHANGED <<state, running, max_iterations, handler_calls, api_budget, shutdown_requested,
                   state_file, load_warning,
                   session_id, archive_files, shutdown, probe, verdict>>

\* agent.py 125-165: AgentLoop.execute_task has returned; the state is
\* saved (_save_state, 254-260, logs a failure and goes on), the response
\* is built and the running flag cleared
Finish(c) ==
    /\ loc[c].pc = "loop_returned"
    /\ cpu = c
    /\ state_file' = save_to_file(state, state_file)[2]
    /\ loc' = [loc EXCEPT ![c].pc = "returned"]
    /\ running' = FALSE
    /\ cpu' = NoCaller
    /\ UNCHANGED <<state, max_iterations, handler_calls, api_budget, shutdown_requested,
                   load_warning,
                   session_id, archive_files, shutdown, probe, verdict>>

\* agent.py 106-107: execute_task called after a shutdown request raises
\* ManusError before it starts anything
RefuseTask(c) ==
    /\ loc[c].pc = "idle"
    /\ cpu = NoCaller
    /\ shutdown_requested
    /\ loc' = [loc EXCEPT ![c].pc = "raised"]
    /\ UNCHANGED <<state, cpu, running, max_iterations, handler_calls, api_budget,
                   shutdown_requested,
                   state_file, load_warning,
                   session_id, archive_files, shutdown, probe, verdict>>

\* agent.py 91-94 and 266: a SIGINT / SIGTERM is handled, or shutdown() is
\* called (server.py 97)
RequestShutdown ==
    /\ cpu = NoCaller
    /\ ~shutdown_requested
    /\ shutdown_requested' = TRUE
    /\ UNCHANGED <<state, loc, cpu, running, max_iterations, handler_calls, api_budget,
                   state_file, load_warning,
                   session_id, archive_files, shutdown, probe, verdict>>

\* agent.py 214-217: clear_conversation (the DELETE /history route, the
\* "clear" command of the CLI)
ClearConversation ==
    /\ cpu = NoCaller
    /\ state.messages # <<>>
    /\ state' = [state EXCEPT !.messages = <<>>]
    /\ UNCHANGED <<loc, cpu, running, max_iterations, handler_calls, api_budget,
                   shutdown_requested,
                   state_file, load_warning,
                   session_id, archive_files, shutdown, probe, verdict>>

\* agent.py 219-240: reset_session, called between two tasks (the "reset"
\* command of the CLI, cli.py 74-78; the POST /reset route). The state is
\* archived when it holds a message or an archived task; save_to_file to the
\* archive path (state_file.with_suffix of the session id) is not guarded,
\* so its ValidationError leaves reset_session before the state is replaced.
\* Otherwise a new AgentState replaces the state and _save_state saves it.
ResetSession ==
    /\ cpu = NoCaller
    /\ \A c \in Callers : loc[c].pc \in {"idle", "returned", "raised"}
    /\ session_id <= MaxResets
    /\ \E archive \in {save_to_file(state, [exists |-> FALSE, text |-> None])} :
       \E archived \in {state.messages # <<>> \/ state.task_history # <<>>} :
          /\ archive_files' = IF archived
                              THEN archive_files \cup
                                     {[session_id |-> session_id, file |-> archive[2]]}
                              ELSE archive_files
          /\ IF archived /\ archive[1] # Ok
             THEN UNCHANGED <<state, session_id, state_file>>
             ELSE /\ state' = FreshState
                  /\ session_id' = session_id + 1
                  /\ state_file' = save_to_file(FreshState, state_file)[2]
    /\ UNCHANGED <<loc, cpu, running, max_iterations, handler_calls, api_budget,
                   shutdown_requested, load_warning, probe, verdict, shutdown>>

\* agent.py 279-289: the end of shutdown(): the final state is saved
\* (_save_state logs a failure and goes on) and the registry and the loop
\* cleaned up. `timeout` and `sleeps` are the frame's values at that point.
ShutdownCompletes(timeout, sleeps) ==
    /\ state_file' = save_to_file(state, state_file)[2]
    /\ shutdown' = [ pc        |-> "done",
                     timeout   |-> timeout,
                     sleeps    |-> sleeps,
                     forced    |-> running,
                     saved     |-> save_to_file(state, state_file)[1],
                     cleaned   |-> TRUE,
                     in_flight |-> \E c \in Callers :
                                     loc[c].pc \in InFlightPcs \cup {"loop_returned"} ]

\* agent.py 262-275: shutdown() is called (server.py 97, the end of the CLI
\* session, __aexit__): the request is recorded; when a task is running the
\* wait begins with the first asyncio.sleep(1)
ShutdownCall ==
    /\ shutdown.pc = "idle"
    /\ cpu = NoCaller
    /\ shutdown_requested' = TRUE
    /\ IF running /\ GracePeriod > 0
       THEN /\ shutdown' = [shutdown EXCEPT !.pc = "sleeping",
                                            !.timeout = GracePeriod, !.sleeps = 1]
            /\ UNCHANGED state_file
       ELSE ShutdownCompletes(GracePeriod, 0)
    /\ UNCHANGED <<state, loc, cpu, running, max_iterations, handler_calls, api_budget,
                   load_warning, probe, verdict, session_id, archive_files>>

\* agent.py 273-277: a sleep of the wait returns; timeout is decremented and
\* the wait goes on while the task runs and timeout is positive
ShutdownWakes ==
    /\ shutdown.pc = "sleeping"
    /\ cpu = NoCaller
    /\ IF running /\ shutdown.timeout - 1 > 0
       THEN /\ shutdown' = [shutdown EXCEPT !.timeout = @ - 1, !.sleeps = @ + 1]
            /\ UNCHANGED state_file
       ELSE ShutdownCompletes(shutdown.timeout - 1, shutdown.sleeps)
    /\ UNCHANGED <<state, loc, cpu, running, max_iterations, handler_calls, api_budget,
                   shutdown_requested, load_warning, probe, verdict, session_id,
                   archive_files>>

\* loop.py 91-119: an exception of any class is raised inside the iteration
\* and caught by `except Exception`: the inputs of the recovery policy
RaiseInIteration(c) ==
    /\ loc[c].pc = "iter_top"
    /\ cpu = c
    /\ loc[c].iteration < loc[c].max_iterations
    /\ \E e \in { LLMError("boom"), ToolError("boom"), SecurityError("boom", "forbidden"),
                   TimeoutError("boom"), ValidationError("boom"), OtherError("boom") } :
            loc' = [loc EXCEPT ![c].pc = "except", ![c].error = e]
    /\ UNCHANGED <<state, cpu, running, max_iterations, handler_calls, api_budget,
                   shutdown_requested,
                   state_file, load_warning,
                   session_id, archive_files, shutdown, probe, verdict>>

\* every step of caller c's execute_task, the oracle answering from menu
CallerStep(c, menu) ==
    \/ Begin(c)
    \/ Exhausted(c)
    \/ TimedOut(c)
    \/ CallOracle(c)
    \/ OracleReturns(c, menu)
    \/ OracleRaises(c)
    \/ RejectCall(c)
    \/ FailDispatch(c)
    \/ Dispatch(c)
    \/ ToolReturns(c)
    \/ Reflect(c)
    \/ HandleError(c)
    \/ SleepReturns(c)
    \/ Finish(c)

\* src/run-nexus.py 58, src/test-minimal.py 63: ToolRegistry.execute_tool
\* called directly, outside the loop
DirectExecuteTool ==
    /\ cpu = NoCaller
    /\ \A c \in Callers : loc[c].pc = "idle"
    /\ \E call \in ToolCallPool :
        /\ execute_tool_entry[call].kind = "ok"
        /\ handler_calls' = handler_calls \cup {call}
    /\ UNCHANGED <<state, loc, cpu, running, max_iterations, api_budget, shutdown_requested,
                   state_file, load_warning,
                   session_id, archive_files, shutdown, probe, verdict>>

----------------------------------------------------------------------------
(* The state machine called directly (AgentState's public methods), for    *)
(* the properties stated of every sequence of its operations.              *)

ApiStartNewTask ==
    /\ api_budget > 0
    /\ state' = start_new_task(state, "Execute: hello...", "hello")
    /\ api_budget' = api_budget - 1
    /\ UNCHANGED <<loc, cpu, running, max_iterations, handler_calls, shutdown_requested,
                   state_file, load_warning,
                   session_id, archive_files, shutdown, probe, verdict>>

\* add_message(role, content) or add_message(role, content, tool_calls=[ToolCall(...)])
ApiAddMessage ==
    /\ api_budget > 0
    /\ \E role \in {"user", "assistant"}, with_tool_call \in BOOLEAN :
        state' = IF with_tool_call
                 THEN add_message([state EXCEPT !.next_id = @ + 1], role, "hello",
                                  << ToolCall(state.next_id, ReadNotes.name, ReadNotes.input,
                                              Some("contents"), None, Some(12)) >>)
                 ELSE add_message(state, role, "hello", <<>>)
    /\ api_budget' = api_budget - 1
    /\ UNCHANGED <<loc, cpu, running, max_iterations, handler_calls, shutdown_requested,
                   state_file, load_warning,
                   session_id, archive_files, shutdown, probe, verdict>>

ApiAddToolCall ==
    /\ api_budget > 0
    /\ \E failed \in BOOLEAN :
        state' = IF failed
                 THEN add_tool_call(state, ReadNotes.name, ReadNotes.input,
                                    None, Some("Tool execution failed: boom"), None)
                 ELSE add_tool_call(state, ReadNotes.name, ReadNotes.input,
                                    Some("contents"), None, Some(12))
    /\ api_budget' = api_budget - 1
    /\ UNCHANGED <<loc, cpu, running, max_iterations, handler_calls, shutdown_requested,
                   state_file, load_warning,
                   session_id, archive_files, shutdown, probe, verdict>>

ApiUpdateTaskProgress ==
    /\ api_budget > 0
    /\ \E completed_step \in {None, Some("step")} :
        state' = update_task_progress(state, <<>>, None, completed_step)
    /\ api_budget' = api_budget - 1
    /\ UNCHANGED <<loc, cpu, running, max_iterations, handler_calls, shutdown_requested,
                   state_file, load_warning,
                   session_id, archive_files, shutdown, probe, verdict>>

ApiCompleteTask ==
    /\ api_budget > 0
    /\ state' = complete_task(state, "done")
    /\ api_budget' = api_budget - 1
    /\ UNCHANGED <<loc, cpu, running, max_iterations, handler_calls, shutdown_requested,
                   state_file, load_warning,
                   session_id, archive_files, shutdown, probe, verdict>>

ApiFailTask ==
    /\ api_budget > 0
    /\ state' = fail_task(state, "boom")
    /\ api_budget' = api_budget - 1
    /\ UNCHANGED <<loc, cpu, running, max_iterations, handler_calls, shutdown_requested,
                   state_file, load_warning,
                   session_id, archive_files, shutdown, probe, verdict>>

----------------------------------------------------------------------------
(* Specifications.                                                         *)

\* a state file left by an earlier run of the agent: one completed task
LoadedState ==
    LET s1 == start_new_task(FreshState, "Execute: hello...", "hello")
        s2 == add_message(s1, "user", "hello", <<>>)
        s3 == add_message(s2, "assistant", "The Task Complete: done", <<>>)
        s4 == update_task_progress(s3, <<>>, None, None)
    IN  complete_task(s4, "The Task Complete: done")

\* ManusAgent.__init__ and _load_or_create_state: a fresh state, or the one
\* loaded from the state file
InitCommon ==
    /\ loc = [c \in Callers |-> IdleFrame]
    /\ cpu = NoCaller
    /\ running = FALSE
    /\ handler_calls = {}
    /\ shutdown_requested = FALSE
    /\ probe = NoProbe
    /\ verdict = None
    /\ session_id = 1
    /\ archive_files = {}
    /\ shutdown = IdleShutdown

\* ManusAgent.__init__ (agent.py 47-48) with one of the state files `files`
\* on disk
InitState(files) ==
    \E file \in files :
        /\ state_file = file
        /\ load_warning = (file.exists /\ load_from_file(file)[1] # Ok)
        /\ state = _load_or_create_state(file)

\* no state file, a state file that holds the document of LoadedState, a
\* state file whose text is no document
NoStateFile == [exists |-> FALSE, text |-> None]
LoadedStateFile == [exists |-> TRUE, text |-> Some(model_dump_json(LoadedState))]
MalformedStateFile == [exists |-> TRUE, text |-> None]

\* one execute_task call at a time (the POST /task route), the registry also
\* called directly
Init ==
    /\ InitCommon
    /\ InitState({NoStateFile, LoadedStateFile})
    /\ max_iterations \in 1..MaxIter
    /\ api_budget = 0

Next ==
    \/ CallerStep("task", Responses)
    \/ DirectExecuteTool

Spec == Init /\ [][Next]_vars

\* the responses explored when two calls interleave
ConcResponses ==
    { [text_content |-> "Working on it", tool_calls |-> r[1], is_complete |-> r[2]] :
        r \in { <<<<>>, FALSE>>, <<<<>>, TRUE>>,
                <<<<Frobnicate, RemoveAll, ReadNotes>>, FALSE>> } }

\* the POST /task and POST /chat routes call execute_task on the global agent
\* concurrently
InitConc ==
    /\ InitCommon
    /\ InitState({NoStateFile})
    /\ max_iterations \in 1..ConcMaxIter
    /\ api_budget = 0

NextConc == \E c \in Callers : CallerStep(c, ConcResponses)

SpecConc == InitConc /\ [][NextConc]_vars

\* a client of AgentState calling its methods in any order
InitApi ==
    /\ InitCommon
    /\ InitState({NoStateFile})
    /\ max_iterations = 1
    /\ api_budget = MaxApiCalls

NextApi ==
    \/ ApiStartNewTask
    \/ ApiAddMessage
    \/ ApiAddToolCall
    \/ ApiUpdateTaskProgress
    \/ ApiCompleteTask
    \/ ApiFailTask

SpecApi == InitApi /\ [][NextApi]_vars

\* the agent's public interface: one execute_task call, clear_conversation
\* and a shutdown request at any await of the call
InitAgent ==
    /\ InitCommon
    /\ InitState({NoStateFile, LoadedStateFile, MalformedStateFile})
    /\ max_iterations \in 1..MaxIter
    /\ api_budget = 0

NextAgent ==
    \/ CallerStep("task", ConcResponses)
    \/ RefuseTask("task")
    \/ RequestShutdown
    \/ ClearConversation

SpecAgent == InitAgent /\ [][NextAgent]_vars

\* one execute_task call in whose iterations an exception of any class may
\* be raised
SpecRecovery ==
    InitAgent /\ [][CallerStep("task", ConcResponses) \/ RaiseInIteration("task")]_vars

\* one execute_task call with config.agent.max_iterations above the
\* TaskContext default
InitLong ==
    /\ InitCommon
    /\ InitState({NoStateFile})
    /\ max_iterations = LongMaxIter
    /\ api_budget = 0

SpecLong == InitLong /\ [][CallerStep("task", ConcResponses)]_vars

----------------------------------------------------------------------------
(* Properties.                                                             *)

\* the ToolCall records of the session, over all messages
RecordedToolCalls(s) ==
    UNION { { s.messages[i].tool_calls[j] : j \in 1..Len(s.messages[i].tool_calls) } :
            i \in 1..Len(s.messages) }

\* C1: a tool handler is invoked for a call (name, arguments) only if
\* SecurityValidator.validate_tool_call returns normally for that name and
\* those arguments, whether the call is dispatched by the loop or through
\* ToolRegistry.execute_tool directly; a rejected call reaches no handler.
ZeroTrustGate ==
    \A call \in handler_calls : validator_verdict[call] = Ok

\* a handler was invoked from the loop and one directly, and a call the
\* validator rejects was proposed and recorded without reaching a handler
ZeroTrustGateWitness ==
    /\ loc["task"].pc = "await_tool" /\ Head(loc["task"].todo) = SearchWeb
    /\ handler_calls = {ReadNotes, SearchWeb}
    /\ \E tc \in RecordedToolCalls(state) :
            tc.tool_name = RemoveAll.name /\ tc.arguments = RemoveAll.input
            /\ tc.error # None

\* C2: concurrent execute_task calls on one agent are serialized: at most
\* one call is between its start_new_task and its complete_task/fail_task,
\* and the task a call in flight works on is the one it started.
TaskExecutionSerialized ==
    /\ \A c, d \in Callers :
            c # d => ~(loc[c].pc \in InFlightPcs /\ loc[d].pc \in InFlightPcs)
    /\ \A c \in Callers :
            loc[c].pc \in InFlightPcs => state.current_task = loc[c].task_id

\* C3: once a task's status is completed, failed or cancelled, no operation
\* changes it.
TerminalStatusIsFinal ==
    [][\A t \in 1..Len(state.tasks) :
            state.tasks[t].status \in TerminalStatuses
            => state'.tasks[t].status = state.tasks[t].status]_vars

\* C4: a task started by execute_task is in_progress while the loop
\* iterates, and a task becomes completed or failed only from in_progress.
StatusFollowsLifecycle ==
    /\ [](\A c \in Callers :
            loc[c].pc \in InFlightPcs
            => state.tasks[loc[c].task_id].status = "in_progress")
    /\ [][\A t \in 1..Len(state.tasks) :
            (state'.tasks[t].status \in {"completed", "failed"}
             /\ state'.tasks[t].status # state.tasks[t].status)
            => state.tasks[t].status = "in_progress"]_vars

\* C5: start_new_task with a current task appends exactly that task to the
\* end of task_history (its length grows by 1) and installs a fresh current
\* task with a different task_id, status pending and iteration_count 0; with
\* no current task it leaves task_history unchanged. (A step that allocates
\* a TaskContext is a start_new_task.)
StartNewTaskArchives ==
    [][Len(state'.tasks) > Len(state.tasks)
       => /\ Len(state'.tasks) = Len(state.tasks) + 1
          /\ SubSeq(state'.tasks, 1, Len(state.tasks)) = state.tasks
          /\ state'.task_history =
                IF state.current_task # NoTask
                THEN Append(state.task_history, state.current_task)
                ELSE state.task_history
          /\ state'.current_task # state.current_task
          /\ \A t \in 1..Len(state.tasks) :
                state'.tasks[state'.current_task].task_id # state.tasks[t].task_id
          /\ state'.tasks[state'.current_task].status = "pending"
          /\ state'.tasks[state'.current_task].iteration_count = 0]_vars

\* start_new_task was called with no current task, with a pending one and
\* with a terminal one
StartNewTaskArchivesWitness ==
    /\ Len(state.task_history) = 2
    /\ state.tasks[state.task_history[1]].status = "pending"
    /\ state.tasks[state.task_history[2]].status = "completed"
    /\ state.tasks[state.current_task].status = "pending"

\* C6: once a task is in task_history no later operation changes any field
\* of it, nor its place in task_history, also when the execute_task that
\* started it is interleaved with a later one.
ArchivedTasksImmutable ==
    [][/\ Len(state'.task_history) >= Len(state.task_history)
       /\ \A k \in 1..Len(state.task_history) :
            /\ state'.task_history[k] = state.task_history[k]
            /\ state'.tasks[state.task_history[k]] = state.tasks[state.task_history[k]]]_vars

\* both interleaved calls have returned, the later one having archived the
\* task of the earlier one while that call was in flight and having
\* recorded tool calls, errors and a final status since
ArchivedTasksImmutableWitness ==
    /\ \A c \in Callers : loc[c].pc = "returned"
    /\ Len(state.task_history) = 1
    /\ state.tasks[state.task_history[1]] =
            TaskContext(state.task_history[1],
                        state.tasks[state.task_history[1]].description,
                        state.tasks[state.task_history[1]].initial_prompt)
    /\ state.tasks[state.current_task].error_history # <<>>
    /\ state.total_tool_calls > 0

\* the places of a call after AgentLoop.execute_task has returned
ReturnedPcs == {"loop_returned", "returned"}

\* C7: every execute_task call ends by returning a (success, message) pair,
\* and then the task it started is completed if success is true and failed
\* if it is false.
ReturnsWithTerminalTask ==
    \A c \in Callers :
        loc[c].pc \in ReturnedPcs
        => /\ Len(loc[c].result) = 1
           /\ Len(loc[c].result[1]) = 2
           /\ loc[c].result[1][1] \in BOOLEAN
           /\ state.tasks[loc[c].task_id].status =
                    IF loc[c].result[1][1] THEN "completed" ELSE "failed"

\* C8: if the oracle's first response has is_complete = true, no second
\* oracle call is made, and execute_task returns success with its task
\* completed and iteration_count 1.
FirstResponseCompletes ==
    \A c \in Callers :
        (/\ loc[c].oracle_log # <<>>
         /\ loc[c].oracle_log[1] # None
         /\ loc[c].oracle_log[1][1].is_complete)
        => /\ loc[c].oracle_calls = 1
           /\ loc[c].pc \in ReturnedPcs
              => /\ loc[c].result[1][1] = TRUE
                 /\ state.tasks[loc[c].task_id].status = "completed"
                 /\ state.tasks[loc[c].task_id].iteration_count = 1

\* the message of the failure by exhaustion for the bound n
ExceededMessage(n) == "exceeded maximum iterations (" \o ToString(n) \o ")"

\* C9: if no response signals completion and no iteration raises,
\* execute_task with max_iterations = N makes exactly N oracle calls and
\* returns failure with its task failed, iteration_count N, and the bound
\* mentioned in the result and in error_history.
ExhaustionFails ==
    \A c \in Callers :
        /\ loc[c].oracle_calls <= loc[c].max_iterations
        /\ (/\ loc[c].pc \in ReturnedPcs
            /\ loc[c].error = Ok
            /\ \A k \in 1..Len(loc[c].oracle_log) :
                    /\ loc[c].oracle_log[k] # None
                    /\ ~_evaluate_completion(loc[c].oracle_log[k][1]))
           => /\ loc[c].oracle_calls = loc[c].max_iterations
              /\ loc[c].result[1][1] = FALSE
              /\ Contains(loc[c].result[1][2], ExceededMessage(loc[c].max_iterations))
              /\ state.tasks[loc[c].task_id].status = "failed"
              /\ state.tasks[loc[c].task_id].iteration_count = loc[c].max_iterations
              /\ \E k \in 1..Len(state.tasks[loc[c].task_id].error_history) :
                    Contains(state.tasks[loc[c].task_id].error_history[k],
                             ExceededMessage(loc[c].max_iterations))

\* the error the registry's ToolError leaves on the ToolCall of an
\* unregistered name (loop.py 340, registry.py 219-222)
NotFoundError(name) ==
    Some("Tool execution failed: Tool '" \o name \o "' not found in registry")

TimeoutIsFatal ==
    /\ [][\A c \in Callers :
            loc[c].error.kind = "TimeoutError"
            => /\ loc'[c].oracle_calls = loc[c].oracle_calls
               /\ loc'[c].todo = loc[c].todo
               /\ loc'[c].iteration = loc[c].iteration
               /\ loc'[c].pc \in {"except"} \cup ReturnedPcs]_vars
    /\ [](\A c \in Callers :
            (loc[c].error.kind = "TimeoutError" /\ loc[c].pc \in ReturnedPcs)
            => /\ loc[c].result[1][1] = FALSE
               /\ state.tasks[loc[c].task_id].status = "failed")

\* C12: while an iteration processes the proposed calls, the calls processed
\* so far are exactly the first proposals, in the oracle's order: each is in
\* the iteration's results and recorded, in that order, on the iteration's
\* assistant message, a failed one with its error; and the iteration goes on
\* to observe only when every proposed call has been processed.
CallsProcessedInOrder ==
    \A c \in Callers :
        loc[c].pc \in {"actions", "await_tool"}
        => LET proposed == loc[c].llm_response.tool_calls
               n        == Len(proposed) - Len(loc[c].todo)
           IN  /\ loc[c].todo = SubSeq(proposed, n + 1, Len(proposed))
               /\ Len(loc[c].tool_results) = n
               /\ \A k \in 1..n : loc[c].tool_results[k].tool_call_id = proposed[k].id
               /\ \E i \in 1..Len(state.messages) :
                    LET m == state.messages[i]
                    IN  /\ m.id = loc[c].message_id
                        /\ m.role = "assistant"
                        /\ m.content = loc[c].llm_response.text_content
                        /\ Len(m.tool_calls) = n
                        /\ \A k \in 1..n :
                            /\ m.tool_calls[k].tool_name = proposed[k].name
                            /\ m.tool_calls[k].arguments = proposed[k].input
                            /\ loc[c].tool_results[k].success = (m.tool_calls[k].error = None)
                            /\ (m.tool_calls[k].error = None) # (m.tool_calls[k].result = None)

\* C13: the iteration_count of a task never decreases and never exceeds the
\* task's max_iterations.
IterationCountBounded ==
    /\ [](\A t \in 1..Len(state.tasks) :
            state.tasks[t].iteration_count <= state.tasks[t].max_iterations)
    /\ [][\A t \in 1..Len(state.tasks) :
            state'.tasks[t].iteration_count >= state.tasks[t].iteration_count]_vars

\* C14: a step that ends an iteration after its completion evaluation
\* increases the iteration_count of the current task and total_iterations by
\* exactly 1; no other step of execute_task, the handling of an exception
\* that aborts an iteration included, changes either counter of any task.
CountersAdvanceOncePerIteration ==
    [][LET completes ==
            \E c \in Callers :
                /\ loc[c].pc = "actions"
                /\ loc[c].todo = <<>>
                /\ loc'[c].pc \in {"iter_top", "loop_returned"}
           d == IF completes THEN 1 ELSE 0
       IN  /\ state'.total_iterations = state.total_iterations + d
           /\ \A t \in 1..Len(state.tasks) :
                state'.tasks[t].iteration_count =
                    state.tasks[t].iteration_count
                    + (IF t = state.current_task THEN d ELSE 0)
           /\ \A t \in (Len(state.tasks) + 1)..Len(state'.tasks) :
                state'.tasks[t].iteration_count = 0]_vars

\* one iteration of the call was aborted by an exception and retried, and
\* one ran through its completion evaluation
CountersAdvanceOncePerIterationWitness ==
    /\ loc["task"].iteration = 2
    /\ loc["task"].pc = "iter_top"
    /\ loc["task"].oracle_log = <<None, Some([text_content |-> "Working on it",
                                             tool_calls |-> <<ReadNotes>>,
                                             is_complete |-> FALSE])>>
    /\ state.tasks[loc["task"].task_id].iteration_count = 1
    /\ state.total_iterations \in {1, 2}

\* C15: total_errors equals the number of errors recorded in the
\* error_history of the tasks of task_history and of the current task.
TotalErrorsIsSumOfTaskErrors ==
    LET live == { state.task_history[i] : i \in 1..Len(state.task_history) }
                \cup ({state.current_task} \ {NoTask})
    IN  state.total_errors =
            Cardinality(UNION { { <<t, k>> : k \in 1..Len(state.tasks[t].error_history) } :
                                t \in live })

\* C16: total_tool_calls equals the number of ToolCall objects attached to
\* the messages of AgentState.messages.
TotalToolCallsCountsToolCalls ==
    state.total_tool_calls =
        Cardinality(UNION { { <<i, j>> : j \in 1..Len(state.messages[i].tool_calls) } :
                            i \in 1..Len(state.messages) })

\* C17: every step keeps the messages present before it, in the same order
\* and with the same id, role and content, as a prefix of AgentState.messages.
MessagesAppendOnly ==
    [][/\ Len(state'.messages) >= Len(state.messages)
       /\ \A i \in 1..Len(state.messages) :
            /\ state'.messages[i].id = state.messages[i].id
            /\ state'.messages[i].role = state.messages[i].role
            /\ state'.messages[i].content = state.messages[i].content]_vars

\* C20: once a shutdown has been requested, no new task is started and no
\* new iteration of a running task is started (no oracle call is begun).
NoNewWorkAfterShutdown ==
    [][shutdown_requested
       => /\ Len(state'.tasks) = Len(state.tasks)
          /\ \A c \in Callers :
                ~(loc[c].pc = "iter_top" /\ loc'[c].pc = "await_oracle")]_vars

\* C18: from_json(to_json(s)) equals s in every field, the lists in their
\* order, for the AgentState s of every reachable state.
RoundTripIsIdentity ==
    /\ to_json(state)[1] = "ok"
    /\ from_json(to_json(state)[3])[1] = "ok"
    /\ \E r \in { from_json(to_json(state)[3])[3][1] } :
        /\ r.messages = state.messages
        /\ r.total_iterations = state.total_iterations
        /\ r.total_tool_calls = state.total_tool_calls
        /\ r.total_errors = state.total_errors
        /\ (r.current_task = NoTask) = (state.current_task = NoTask)
        /\ r.current_task # NoTask => r.tasks[r.current_task] = state.tasks[state.current_task]
        /\ Len(r.task_history) = Len(state.task_history)
        /\ \A i \in 1..Len(r.task_history) :
                r.tasks[r.task_history[i]] = state.tasks[state.task_history[i]]

\* the system-role message the recovery policy adds for a security violation
SecurityNotice(msg) == "Security error occurred: " \o msg \o ". Please modify your approach."

\* C19: the handling of an exception raised in iteration number
\* iteration + 1: an LLMError or ToolError in one of the first 3 iterations
\* continues (after the pause) and adds no message; otherwise a
\* SecurityError continues with the next iteration and appends exactly one
\* system message that describes it; every other error, a transient one
\* after the third iteration and a timeout included, fails the task and
\* returns failure at once.
RecoveryPolicy ==
    [][\A c \in Callers :
        (loc[c].pc = "except" /\ loc'[c].pc # "except")
        => LET e == loc[c].error
               transient == e.kind \in {"LLMError", "ToolError"}
           IN  IF transient /\ loc[c].iteration + 1 <= 3
               THEN /\ loc'[c].pc = "await_sleep"
                    /\ state'.messages = state.messages
                    /\ state'.tasks[state.current_task].status = "pending"
               ELSE IF e.kind = "SecurityError"
               THEN /\ loc'[c].pc = "iter_top"
                    /\ loc'[c].iteration = loc[c].iteration + 1
                    /\ Len(state'.messages) = Len(state.messages) + 1
                    /\ SubSeq(state'.messages, 1, Len(state.messages)) = state.messages
                    /\ state'.messages[Len(state'.messages)].role = "system"
                    /\ state'.messages[Len(state'.messages)].content = SecurityNotice(e.msg)
                    /\ state'.tasks[state.current_task].status = "pending"
               ELSE /\ loc'[c].pc = "loop_returned"
                    /\ loc'[c].result[1][1] = FALSE
                    /\ state'.messages = state.messages
                    /\ state'.tasks[state.current_task].status = "failed"]_vars

\* a run in which a security violation was handled in the third iteration
\* and a transient error then aborted the fourth
RecoveryPolicyWitness ==
    /\ loc["task"].pc = "loop_returned"
    /\ loc["task"].iteration = 3
    /\ loc["task"].error.kind = "ToolError"
    /\ Len(state.messages) >= 2
    /\ state.messages[Len(state.messages)].role = "system"
    /\ state.messages[Len(state.messages)].content = SecurityNotice("boom")
    /\ state.tasks[state.current_task].status = "failed"

\* C21: saving the state is atomic: whatever a step does to the state file,
\* the file afterwards holds a complete document, the one it held before or
\* the document of the current state, never a partial or empty text
StateFileIsComplete ==
    [][state_file'.exists =>
          /\ state_file'.text # None
          /\ state_file'.text \in {state_file.text, Some(model_dump_json(state'))}]_vars

\* C22: malformed persisted state is a ValidationError of from_json and of
\* load_from_file, and an agent constructed on a malformed state file does
\* not go on to run tasks on a fresh state
MalformedStateIsSurfaced ==
    /\ from_json(None)[1] = "ValidationError"
    /\ load_from_file(MalformedStateFile)[1].kind = "ValidationError"
    /\ load_warning => \A c \in Callers : loc[c].pc = "idle"

\* one execute_task call whose steps are eventually taken: the event loop
\* resumes the call whenever it can run, and every oracle call and tool
\* dispatch it awaits returns or raises
SpecFair ==
    /\ InitAgent
    /\ [][CallerStep("task", ConcResponses)]_vars
    /\ WF_vars(CallerStep("task", ConcResponses))

----------------------------------------------------------------------------
(* The registry and the validator called on their own, on one input each.  *)

Twice(s) == s \o s

\* n copies of "a"
RECURSIVE Filler(_)
Filler(n) ==
    IF n = 0 THEN ""
    ELSE IF n % 2 = 0 THEN Twice(Filler(n \div 2))
    ELSE "a" \o Filler(n - 1)

\* the calls given to execute_tool and to validate_tool_call: the pool of
\* the loop, calls that fail the schema and the security validator at once,
\* names of unknown prefix or shape, arguments over the length limit, an
\* argument matching an injection pattern
ProbeCalls ==
    ToolCallPool \cup
    { [id |-> "tc_write", name |-> "file_write", input |-> [path |-> JStr("/etc/passwd")]],
      [id |-> "tc_enc", name |-> "file_read",
       input |-> [path |-> JStr("/etc/passwd"), encoding |-> JInt(1)]],
      [id |-> "tc_evil", name |-> "evil_tool", input |-> [path |-> JStr("/etc/passwd")]],
      [id |-> "tc_shape", name |-> "File-Read", input |-> [path |-> JStr("/tmp/notes.txt")]],
      [id |-> "tc_long", name |-> "file_write",
       input |-> [path |-> JStr("/etc/passwd"), content |-> JStr(Filler(MaxArgumentLength + 1))]],
      [id |-> "tc_shlong", name |-> "shell_exec",
       input |-> [command |-> JStr("rm -rf /"),
                  environment |-> JStr(Filler(MaxArgumentLength + 1))]],
      [id |-> "tc_query", name |-> "search_web",
       input |-> [query |-> JStr(Filler(MaxArgumentLength + 1))]],
      [id |-> "tc_limit", name |-> "search_web",
       input |-> [query |-> JStr(Filler(MaxArgumentLength))]],
      [id |-> "tc_script", name |-> "search_web",
       input |-> [query |-> JStr("<script>document.cookie</script>")]],
      [id |-> "tc_js", name |-> "file_write",
       input |-> [path |-> JStr("/tmp/a.html"), content |-> JStr("javascript:eval (x)")]],
      [id |-> "tc_ls", name |-> "shell_exec", input |-> [command |-> JStr("ls -la")]],
      [id |-> "tc_nav", name |-> "browser_navigate",
       input |-> [url |-> JStr("http://evil.example")]],
      [id |-> "tc_netevil", name |-> "network_fetch",
       input |-> [url |-> JStr("http://evil.example")]],
      [id |-> "tc_big", name |-> "file_write",
       input |-> [path |-> JStr("/tmp/a.txt"), content |-> JStr(Filler(MaxArgumentLength + 1))]],
      [id |-> "tc_fits", name |-> "file_write",
       input |-> [path |-> JStr("/tmp/a.txt"), content |-> JStr(Filler(MaxArgumentLength))]] }

\* the URLs given to validate_network_request
ProbeUrls ==
    { "https://github.com/x", "http://evil.example", "https://api.github.com/repos",
      "https://evilgithub.com/x", "https://notpypi.org", "HTTPS://GitHub.com/x",
      "ftp://github.com/x", "file:///etc/passwd", "github.com/x", "",
      "https://github.com:443/x", "https://github.com:22/x", "https://evil.example:22",
      "https://evil.example:8080", "https://github.com:ssh/x", "https://github.com:/x",
      "https://user@github.com/x", "https://github.com@evil.example/x",
      "https://pypi.org?q=1", "https://github.com.evil.example/x" }

\* the paths given to validate_file_path
ProbePaths ==
    { "/tmp/notes.txt", "/tmp", "/app", "/app/data/../notes.txt", "notes.txt",
      "../../etc/passwd", "/tmp/../etc/shadow", "/etc/hosts", "/", "",
      "/tmpfoo/notes.txt", "/application/notes.txt", "/home/manus2/x", "/home/manus/x",
      "/var/tmp/manus/cache", "/var/tmp/x", "/tmp/.ssh/id_rsa", "/home/manus/.env",
      "/app/server.pem", "/tmp/etc/passwd", "/app/../root/x" }

\* the commands given to validate_shell_command
ProbeCommands ==
    { "ls -la", "rm -rf /", "", "   ", "rm notes.txt", "/bin/ls /tmp", "/usr/bin/rm x",
      "echo hi | sh", "sudo ls", "cat /etc/passwd", "ls 'unclosed", "git status",
      "git config --global user.name x", "curl https://github.com/x",
      "curl http://evil.example", "python -c 'eval(1)'", "python3 script.py",
      "frobnicate", "LS -la", "echo ../x", "  ls  " }

\* ToolRegistry.execute_tool(name, arguments): what it returns or raises,
\* the handler invoked when the gate lets the call through
ExecuteTool ==
    /\ probe.fn = "execute_tool"
    /\ verdict = None
    /\ \E gate \in {execute_tool_gate(probe.arg.name, probe.arg.input)} :
          IF gate.kind = "ok"
          THEN /\ handler_calls' = handler_calls \cup {probe.arg}
               /\ \E outcome \in HandlerOutcomes(probe.arg.name) :
                      verdict' = Some(WrapUnexpected(outcome))
          ELSE /\ verdict' = Some(gate)
               /\ UNCHANGED handler_calls
    /\ UNCHANGED <<state, loc, cpu, running, max_iterations, api_budget, shutdown_requested,
                   state_file, load_warning,
                   session_id, archive_files, shutdown, probe>>

\* SecurityValidator.validate_tool_call(tool_name, arguments)
ValidateToolCall ==
    /\ probe.fn = "validate_tool_call"
    /\ verdict = None
    /\ verdict' = Some(validate_tool_call(probe.arg.name, probe.arg.input))
    /\ UNCHANGED <<state, loc, cpu, running, max_iterations, handler_calls, api_budget,
                   shutdown_requested, state_file, load_warning,
                   session_id, archive_files, shutdown, probe>>

\* SecurityValidator.validate_network_request(url)
ValidateNetworkRequest ==
    /\ probe.fn = "validate_network_request"
    /\ verdict = None
    /\ verdict' = Some(validate_network_request(probe.arg))
    /\ UNCHANGED <<state, loc, cpu, running, max_iterations, handler_calls, api_budget,
                   shutdown_requested, state_file, load_warning,
                   session_id, archive_files, shutdown, probe>>

\* SecurityValidator.validate_file_path(path): the outcome, the msg of Ok
\* being the path returned
ValidateFilePath ==
    /\ probe.fn = "validate_file_path"
    /\ verdict = None
    /\ \E outcome \in {validate_file_path(probe.arg, "access")} :
          verdict' = Some(IF outcome.kind = "ok"
                          THEN [outcome EXCEPT !.msg = Resolve(probe.arg)] ELSE outcome)
    /\ UNCHANGED <<state, loc, cpu, running, max_iterations, handler_calls, api_budget,
                   shutdown_requested, state_file, load_warning,
                   session_id, archive_files, shutdown, probe>>

\* SecurityValidator.validate_shell_command(command)
ValidateShellCommand ==
    /\ probe.fn = "validate_shell_command"
    /\ verdict = None
    /\ verdict' = Some(validate_shell_command(probe.arg))
    /\ UNCHANGED <<state, loc, cpu, running, max_iterations, handler_calls, api_budget,
                   shutdown_requested, state_file, load_warning,
                   session_id, archive_files, shutdown, probe>>

\* a registry and a validator constructed (agent.py 53-54), one call of one
\* of their methods to be made
InitProbe ==
    /\ loc = [c \in Callers |-> IdleFrame]
    /\ cpu = NoCaller
    /\ running = FALSE
    /\ handler_calls = {}
    /\ shutdown_requested = FALSE
    /\ InitState({NoStateFile})
    /\ max_iterations = 1
    /\ api_budget = 0
    /\ session_id = 1
    /\ archive_files = {}
    /\ shutdown = IdleShutdown
    /\ verdict = None
    /\ \/ \E call \in ProbeCalls :
            \E fn \in {"execute_tool", "validate_tool_call"} : probe = [fn |-> fn, arg |-> call]
       \/ \E url \in ProbeUrls : probe = [fn |-> "validate_network_request", arg |-> url]
       \/ \E path \in ProbePaths : probe = [fn |-> "validate_file_path", arg |-> path]
       \/ \E command \in ProbeCommands :
            probe = [fn |-> "validate_shell_command", arg |-> command]

NextProbe ==
    \/ ExecuteTool
    \/ ValidateToolCall
    \/ ValidateNetworkRequest
    \/ ValidateFilePath
    \/ ValidateShellCommand

SpecProbe == InitProbe /\ [][NextProbe]_vars

----------------------------------------------------------------------------
(* Properties of the registry and the validator called on their own.       *)

\* the required keys of the tool's schema that the arguments lack, and the
\* keys whose value is not of the declared type
OffendingFields(name, arguments) ==
    { schemas[name].required[k] : k \in { j \in 1..Len(schemas[name].required) :
                                            ~Has(arguments, schemas[name].required[j]) } }
    \cup { key \in DOMAIN arguments \cap DOMAIN schemas[name].properties :
            _validate_argument_type(key, arguments[key], schemas[name].properties[key]) # Ok }

\* C23: execute_tool looks the name up, validates the arguments against the
\* schema, consults the security validator and invokes the handler, in that
\* order: an unregistered name raises the registry's ToolError; arguments
\* that lack a required key or carry a value of the wrong declared type
\* raise a ValidationError naming an offending field, also when the
\* security validator would reject the call; in both cases the handler is
\* not invoked
ExecuteToolOrder ==
    (probe.fn = "execute_tool" /\ verdict # None) =>
        /\ probe.arg.name \notin tools =>
             /\ verdict[1] = ToolError("Tool '" \o probe.arg.name \o "' not found in registry")
             /\ probe.arg \notin handler_calls
        /\ (probe.arg.name \in tools /\ OffendingFields(probe.arg.name, probe.arg.input) # {}) =>
             /\ verdict[1].kind = "ValidationError"
             /\ \E field \in OffendingFields(probe.arg.name, probe.arg.input) :
                    Contains(verdict[1].msg, field)
             /\ probe.arg \notin handler_calls

\* execute_tool was called with a file_write that lacks its content and
\* whose path the security validator rejects
ExecuteToolOrderWitness ==
    /\ probe.fn = "execute_tool"
    /\ verdict # None
    /\ probe.arg.name = "file_write"
    /\ ~Has(probe.arg.input, "content")
    /\ validate_tool_call(probe.arg.name, probe.arg.input).kind = "SecurityError"
    /\ verdict[1].kind = "ValidationError"

\* the category rule validate_tool_call selects by the prefix of the name
CategoryOutcome(tool_name, arguments) ==
    CASE StartsWith(tool_name, "shell_")   -> _validate_shell_arguments(arguments)
      [] StartsWith(tool_name, "file_")    -> _validate_file_arguments(arguments)
      [] StartsWith(tool_name, "browser_") -> _validate_browser_arguments(arguments)
      [] StartsWith(tool_name, "network_") -> _validate_network_arguments(arguments)
      [] OTHER -> Ok

\* validator.py 427-430: the injection patterns of the generic scan
InjectionPatterns ==
    << "<script\\b", "javascript:", "on\\w+\\s*=", "\\$\\(", "eval\\s*\\(", "document\\." >>

\* some string argument matches an injection pattern
MatchesInjectionPattern(arguments) ==
    \E key \in DOMAIN arguments :
        IsStr(arguments[key]) /\ FirstMatching(InjectionPatterns, arguments[key][2]) # 0

\* some string argument is longer than the generic scan allows
OverLength(arguments) ==
    \E key \in DOMAIN arguments :
        IsStr(arguments[key]) /\ Len(arguments[key][2]) > MaxArgumentLength

\* C24: validate_tool_call checks the name, then the category rule of the
\* prefix, then the generic scan, and the first rule that fails decides: a
\* name of unknown prefix or of non-identifier shape is an unauthorized_tool
\* whatever the arguments, a call that breaks its category rule fails with
\* that rule's violation also when an argument is over the length limit, a
\* call that breaks only the length limit is an oversized_argument, and a
\* call that only matches an injection pattern is accepted
ValidateToolCallOrder ==
    (probe.fn = "validate_tool_call" /\ verdict # None) =>
        /\ ( \/ ~ReMatch("^[a-z][a-z0-9_]*$", probe.arg.name)
             \/ ~\E prefix \in SafePrefixes : StartsWith(probe.arg.name, prefix) )
           => verdict[1].violation_type = "unauthorized_tool"
        /\ ( /\ _is_safe_tool_name(probe.arg.name)
             /\ CategoryOutcome(probe.arg.name, probe.arg.input) # Ok )
           => verdict[1] = CategoryOutcome(probe.arg.name, probe.arg.input)
        /\ ( /\ _is_safe_tool_name(probe.arg.name)
             /\ CategoryOutcome(probe.arg.name, probe.arg.input) = Ok
             /\ OverLength(probe.arg.input) )
           => verdict[1].violation_type = "oversized_argument"
        /\ ( /\ _is_safe_tool_name(probe.arg.name)
             /\ CategoryOutcome(probe.arg.name, probe.arg.input) = Ok
             /\ ~OverLength(probe.arg.input) )
           => verdict[1] = Ok
        /\ ( /\ _is_safe_tool_name(probe.arg.name)
             /\ CategoryOutcome(probe.arg.name, probe.arg.input) = Ok
             /\ ~OverLength(probe.arg.input)
             /\ MatchesInjectionPattern(probe.arg.input) )
           => verdict[1].kind = "ok"

\* validate_tool_call has rejected, for its path, a file_write whose path is
\* outside the allowed roots and whose content is over the length limit
ValidateToolCallOrderWitness ==
    /\ probe.fn = "validate_tool_call"
    /\ verdict # None
    /\ StartsWith(probe.arg.name, "file_")
    /\ OverLength(probe.arg.input)
    /\ verdict[1].violation_type = "path_traversal"

\* the host and the port of a URL (urllib's hostname and port of the parsed
\* URL): the netloc without its userinfo, split at the ':' of the port
UrlHostPort(url) == SplitOn(Lower(SplitOn(urlparse(url).netloc, "@")
                                    [Len(SplitOn(urlparse(url).netloc, "@"))]), ":")

HostAllowed(host) ==
    \E allowed_domain \in allowed_domains :
        host = allowed_domain \/ EndsWith(host, "." \o allowed_domain)

\* no port, or a decimal port that is not blocked
PortAllowed(hostport) ==
    \/ Len(hostport) = 1
    \/ hostport[2] = ""
    \/ int(hostport[2]) # -1 /\ int(hostport[2]) \notin blocked_ports

\* C25: validate_network_request succeeds exactly when the scheme is http or
\* https, the port, if there is one, is not a blocked port, and the host is
\* an allowed domain or a subdomain of one; when the scheme and the port pass
\* and the host does not, the violation is unauthorized_domain
NetworkRequestRule ==
    (probe.fn = "validate_network_request" /\ verdict # None) =>
        /\ verdict[1].kind \in {"ok", "SecurityError"}
        /\ verdict[1].kind = "ok" <=>
             /\ urlparse(probe.arg).scheme \in {"http", "https"}
             /\ PortAllowed(UrlHostPort(probe.arg))
             /\ HostAllowed(UrlHostPort(probe.arg)[1])
        /\ ( /\ urlparse(probe.arg).scheme \in {"http", "https"}
             /\ PortAllowed(UrlHostPort(probe.arg))
             /\ ~HostAllowed(UrlHostPort(probe.arg)[1]) )
           => verdict[1].violation_type = "unauthorized_domain"

\* the resolved path is an allowed root or lies beneath one: the root is a
\* prefix of it by whole path components
BeneathAllowedRoot(path_str) ==
    \E k \in 1..Len(ALLOWED_BASE_PATHS) :
        \/ path_str = ALLOWED_BASE_PATHS[k]
        \/ StartsWith(path_str, ALLOWED_BASE_PATHS[k] \o "/")

\* C26: validate_file_path succeeds, returning the resolved absolute path,
\* only if that path is an allowed root or beneath one and matches no
\* sensitive-file pattern; a path that resolves outside every allowed root
\* fails with path_traversal, a path matching a sensitive-file pattern fails
\* also inside an allowed root
FilePathRule ==
    (probe.fn = "validate_file_path" /\ verdict # None) =>
        /\ verdict[1].kind = "ok" =>
             /\ verdict[1].msg = Resolve(probe.arg)
             /\ BeneathAllowedRoot(Resolve(probe.arg))
             /\ FirstMatching(SensitivePatterns, Resolve(probe.arg)) = 0
        /\ (probe.arg # "" /\ ~BeneathAllowedRoot(Resolve(probe.arg)))
           => verdict[1].violation_type = "path_traversal"
        /\ (probe.arg # "" /\ FirstMatching(SensitivePatterns, Resolve(probe.arg)) # 0)
           => verdict[1].kind = "SecurityError"

\* C27: validate_shell_command rejects an empty command (empty_command),
\* then a command matching a forbidden pattern (forbidden_pattern), then a
\* command whose base command, the first token with its path stripped, is
\* not in the allow-list (unauthorized_command); it accepts a command that is
\* not empty, matches no forbidden pattern, and has an allow-listed base
\* command that passes the command's sub-rules
ShellCommandRule ==
    (probe.fn = "validate_shell_command" /\ verdict # None) =>
        /\ (probe.arg = "" \/ IsBlank(probe.arg))
           => verdict[1].violation_type = "empty_command"
        /\ ( /\ ~IsBlank(probe.arg)
             /\ \E k \in 1..Len(FORBIDDEN_PATTERNS) : ReSearchI(FORBIDDEN_PATTERNS[k], probe.arg) )
           => verdict[1].violation_type = "forbidden_pattern"
        /\ ( /\ ~IsBlank(probe.arg)
             /\ ~\E k \in 1..Len(FORBIDDEN_PATTERNS) : ReSearchI(FORBIDDEN_PATTERNS[k], probe.arg)
             /\ shlex_split(probe.arg).ok
             /\ shlex_split(probe.arg).tokens # <<>> )
           => /\ BaseName(shlex_split(probe.arg).tokens[1]) \notin ALLOWED_COMMANDS
                 => verdict[1].violation_type = "unauthorized_command"
              /\ ( /\ BaseName(shlex_split(probe.arg).tokens[1]) \in ALLOWED_COMMANDS
                   /\ _validate_specific_command(BaseName(shlex_split(probe.arg).tokens[1]),
                                                 Tail(shlex_split(probe.arg).tokens)) = Ok )
                 => verdict[1] = Ok

\* validate_shell_command has rejected 'rm -rf /', whose base command is not
\* allow-listed either, for its forbidden pattern
ShellCommandRuleWitness ==
    /\ probe = [fn |-> "validate_shell_command", arg |-> "rm -rf /"]
    /\ verdict # None
    /\ verdict[1].violation_type = "forbidden_pattern"
    /\ BaseName(shlex_split(probe.arg).tokens[1]) \notin ALLOWED_COMMANDS

\* C28: execute_task terminates: when every oracle call and every tool
\* dispatch returns or raises, the call eventually returns, and it never
\* makes more than max_iterations oracle calls
ExecuteTaskTerminates ==
    /\ <>(loc["task"].pc = "returned")
    /\ [](loc["task"].oracle_calls <= max_iterations)

\* the call has returned after as many oracle calls as the largest
\* max_iterations allows
ExecuteTaskTerminatesWitness ==
    /\ loc["task"].pc = "returned"
    /\ max_iterations = MaxIter
    /\ loc["task"].oracle_calls = max_iterations

\* C29: when every oracle call of a task fails (and the deadline does not
\* pass), execute_task makes exactly min(max_iterations, 4) oracle calls,
\* never more, and its task ends failed with iteration_count 0
OracleFailuresBounded ==
    \A c \in Callers :
        /\ (\A k \in 1..Len(loc[c].oracle_log) : loc[c].oracle_log[k] = None)
           => loc[c].oracle_calls <= (IF loc[c].max_iterations < 4
                                      THEN loc[c].max_iterations ELSE 4)
        /\ (/\ loc[c].pc \in ReturnedPcs
            /\ loc[c].error.kind # "TimeoutError"
            /\ \A k \in 1..Len(loc[c].oracle_log) : loc[c].oracle_log[k] = None)
           => /\ loc[c].oracle_calls = (IF loc[c].max_iterations < 4
                                        THEN loc[c].max_iterations ELSE 4)
              /\ state.tasks[loc[c].task_id].status = "failed"
              /\ state.tasks[loc[c].task_id].iteration_count = 0

\* some entry of the iteration's results is a failure by ToolError: the
\* validator accepted the call and execute_tool raised ToolError, for an
\* unknown tool or from the handler
FailedWithToolError(tool_results) ==
    \E k \in 1..Len(tool_results) :
        /\ ~tool_results[k].success
        /\ \E call \in ToolCallPool :
            /\ call.id = tool_results[k].tool_call_id
            /\ validator_verdict[call].kind = "ok"
            /\ execute_tool_entry[call].kind \in {"ok", "ToolError"}

\* C30: a tool call that fails with ToolError is tolerated up to the
\* transient bound of the recovery policy: an iteration among the first 3
\* that holds such a failure goes on (the task is not failed by it), a
\* later iteration that holds one ends with the task failed
ToolErrorFatalAfterThird ==
    [][\A c \in Callers :
        (/\ loc[c].pc = "actions" /\ cpu = c /\ loc[c].todo = <<>>
         /\ FailedWithToolError(loc[c].tool_results))
        => IF loc[c].iteration < 3
           THEN /\ loc'[c].pc \in {"iter_top", "loop_returned"}
                /\ state'.tasks[loc[c].task_id].status # "failed"
           ELSE /\ loc'[c].pc = "loop_returned"
                /\ loc'[c].result[1][1] = FALSE
                /\ state'.tasks[loc[c].task_id].status = "failed"]_vars

----------------------------------------------------------------------------
(* The session: tasks one after another, clear_conversation and            *)
(* reset_session between them.                                             *)

\* the CLI session (cli.py 48-90): one prompt at a time, the clear and
\* reset commands between two prompts
NextSession ==
    \/ CallerStep("task", ConcResponses)
    \/ ClearConversation
    \/ ResetSession

SpecSession == InitAgent /\ [][NextSession]_vars

\* C31: reset_session never discards session data: when a step replaces the
\* session's state by a fresh one (a new session_id) and the state replaced
\* holds a message, an archived task or a current task, an archive file of
\* the old session holds the document of the state replaced
ResetArchivesSession ==
    [][(/\ session_id' # session_id
        /\ \/ state.messages # <<>>
           \/ state.task_history # <<>>
           \/ state.current_task # NoTask)
       => \E a \in archive_files' :
             /\ a.session_id = session_id
             /\ a.file.exists
             /\ a.file.text = Some(model_dump_json(state))]_vars

----------------------------------------------------------------------------
(* shutdown() called while a task may be running.                          *)

\* one execute_task call and shutdown() called at any await of it, or
\* before or after it
NextShutdown ==
    \/ CallerStep("task", ConcResponses)
    \/ RefuseTask("task")
    \/ ShutdownCall
    \/ ShutdownWakes

\* the code of the call between two awaits runs to the next await; every
\* asyncio.sleep(1) of the wait returns and the event loop resumes
\* shutdown() when no other coroutine runs. An awaited oracle or tool need
\* not answer.
SpecShutdown ==
    /\ InitConc
    /\ [][NextShutdown]_vars
    /\ WF_vars(cpu = "task" /\ CallerStep("task", ConcResponses))
    /\ WF_vars(ShutdownWakes)

\* C32: shutdown() always terminates and saves the state: a shutdown that
\* waits ends; it starts at most GracePeriod one-second sleeps; a wake-up
\* that finds no task running ends the wait; when it ends the final state
\* has been saved and the resources released, and after a full grace period
\* with the task still running the forced shutdown is declared
ShutdownTerminatesAndSaves ==
    /\ (shutdown.pc = "sleeping") ~> (shutdown.pc = "done")
    /\ [](shutdown.sleeps <= GracePeriod)
    /\ [][(shutdown.pc = "sleeping" /\ ~running /\ shutdown' # shutdown)
            => shutdown'.pc = "done"]_vars
    /\ [](shutdown.pc = "done" =>
            /\ shutdown.cleaned
            /\ shutdown.saved = Ok
            /\ (shutdown.in_flight => shutdown.forced /\ shutdown.sleeps = GracePeriod))

\* C33: execute_tool wraps into ToolError only exceptions that are not
\* already domain errors: the ValidationError of its schema validation and
\* the SecurityError of its security validation reach the caller as they
\* were raised (kind, message, violation type), and a wrapped error
\* ("Tool execution failed: ...") comes from the handler only
DomainErrorsReachCaller ==
    (probe.fn = "execute_tool" /\ verdict # None /\ probe.arg.name \in tools) =>
        /\ _validate_arguments(probe.arg.name, probe.arg.input).kind # "ok"
              => verdict[1] = _validate_arguments(probe.arg.name, probe.arg.input)
        /\ (/\ _validate_arguments(probe.arg.name, probe.arg.input).kind = "ok"
            /\ registry_security_validation(probe.arg.name, probe.arg.input).kind # "ok")
              => verdict[1] = registry_security_validation(probe.arg.name, probe.arg.input)
        /\ StartsWith(verdict[1].msg, "Tool execution failed: ")
              => probe.arg \in handler_calls

\* C34: a tool call whose name carries the network prefix passes the
\* tool-name rule and is judged by the URL rule: validate_tool_call accepts
\* it when validate_network_request accepts its url, and rejects it with
\* unauthorized_domain when validate_network_request rejects the url's host
NetworkCallsJudgedByUrl ==
    (/\ probe.fn = "validate_tool_call" /\ verdict # None
     /\ StartsWith(probe.arg.name, "network_")
     /\ DOMAIN probe.arg.input = {"url"}
     /\ Len(probe.arg.input.url[2]) <= MaxArgumentLength) =>
        /\ _is_safe_tool_name(probe.arg.name)
        /\ verdict[1] = validate_network_request(probe.arg.input.url[2])

\* C35: for a file-category call with an allowed path the content size limit
\* is the configured maximum: a string content of at most
\* max_file_size_mb * 1024 * 1024 characters is accepted, and a rejection
\* for size means the content is longer than that
ContentLimitIsConfigured ==
    (/\ probe.fn = "validate_tool_call" /\ verdict # None
     /\ StartsWith(probe.arg.name, "file_") /\ _is_safe_tool_name(probe.arg.name)
     /\ DOMAIN probe.arg.input = {"path", "content"}
     /\ IsStr(probe.arg.input.content)
     /\ validate_file_path(probe.arg.input.path[2], "access").kind = "ok") =>
        /\ Len(probe.arg.input.content[2]) <= max_file_size_mb * 1024 * 1024
              => verdict[1].kind = "ok"
        /\ verdict[1].violation_type \in {"oversized_content", "oversized_argument"}
              => Len(probe.arg.input.content[2]) > max_file_size_mb * 1024 * 1024

----------------------------------------------------------------------------
(* The conversation cleared while a task runs.                             *)

\* one execute_task call (the POST /task route) and clear_conversation (the
\* DELETE /history route, server.py 166-171) at any await of it
SpecClear == Init /\ [][CallerStep("task", Responses) \/ ClearConversation]_vars

\* C36: an iteration completes the task exactly when the oracle response has
\* is_complete or its text contains a completion phrase in any letter case,
\* whatever the outcomes of the iteration's tool calls; on completion the
\* result returned is the text of that iteration's assistant message, and
\* otherwise the loop goes on to the next iteration
CompletionIsByResponse ==
    [][\A c \in Callers :
        (/\ loc[c].pc = "actions" /\ cpu = c /\ loc[c].todo = <<>>
         /\ loc'[c] # loc[c])
        => IF \/ loc[c].llm_response.is_complete
              \/ \E indicator \in completion_indicators :
                    Contains(Lower(loc[c].llm_response.text_content), indicator)
           THEN /\ loc'[c].pc = "loop_returned"
                /\ loc'[c].result = Some(<<TRUE, loc[c].llm_response.text_content>>)
                /\ state'.tasks[state'.current_task].status = "completed"
           ELSE /\ loc'[c].pc = "iter_top"
                /\ loc'[c].iteration = loc[c].iteration + 1]_vars

----------------------------------------------------------------------------
(* An oracle that proposes many tool calls in one response.                *)

\* a response that proposes one call more than max_tool_calls_per_iteration
ManyCalls == [k \in 1..(max_tool_calls_per_iteration + 1) |-> ReadNotes]

ManyResponses ==
    ConcResponses \cup
    { [text_content |-> "Working on it", tool_calls |-> ManyCalls, is_complete |-> FALSE] }

SpecMany == InitConc /\ [][CallerStep("task", ManyResponses)]_vars

\* C37: in one iteration the loop dispatches at most
\* max_tool_calls_per_iteration tool calls: of the calls processed so far in
\* the iteration, at most that many went past the validator to the registry
DispatchesBoundedPerIteration ==
    \A c \in Callers :
        Cardinality({k \in 1..Len(loc[c].tool_results) :
                        ~StartsWith(loc[c].tool_results[k].text, "Security violation")})
            <= max_tool_calls_per_iteration

----------------------------------------------------------------------------
(* The agent run with the bundled oracle (src/test-simple.py).             *)

\* one execute_task call answered by the bundled oracle; the calls it
\* proposes for the prompts explored pass the validator and the registry's
\* gate, and the deadline does not pass
NextMock ==
    \/ Begin("task")
    \/ CallOracle("task")
    \/ MockOracleReturns("task")
    \/ Dispatch("task")
    \/ ToolReturns("task")
    \/ Reflect("task")
    \/ Exhausted("task")
    \/ Finish("task")

\* the call is started and each of its steps is eventually taken
SpecMock == InitAgent /\ [][NextMock]_vars /\ WF_vars(NextMock)

\* C38: with the bundled oracle, execute_task on a plain prompt eventually
\* ends with the task completed and success = true in its result
MockTaskSucceeds ==
    <>(/\ loc["task"].pc = "returned"
       /\ loc["task"].result[1][1] = TRUE
       /\ state.tasks[loc["task"].task_id].status = "completed")

----------------------------------------------------------------------------
(* shutdown() called while the routes call execute_task concurrently.      *)

NextConcShutdown ==
    \/ NextConc
    \/ \E c \in Callers : RefuseTask(c)
    \/ ShutdownCall
    \/ ShutdownWakes

SpecConcShutdown == InitConc /\ [][NextConcShutdown]_vars

\* C39: the running flag is accurate under every interleaving: _running is
\* true whenever some execute_task call has started and not yet returned,
\* so a shutdown that ends while a call is still in flight has waited the
\* whole grace period and declared the forced shutdown
RunningFlagAccurate ==
    /\ \A c \in Callers : loc[c].pc \in InFlightPcs \cup {"loop_returned"} => running
    /\ (shutdown.pc = "done" /\ shutdown.in_flight)
          => (shutdown.forced /\ shutdown.sleeps = GracePeriod)

----------------------------------------------------------------------------
\* the number of entries of the error_history of the task of call c
ErrorsRecorded(s, c) == Len(s.tasks[loc[c].task_id].error_history)

\* C40: each iteration-level error is recorded exactly once in the task's
\* error_history: the handler of an exception raised in an iteration adds
\* one entry whether the recovery policy continues or aborts, and an
\* exhausted iteration bound adds one entry
ErrorsRecordedOnce ==
    [][ \A c \in Callers :
          \/ loc[c].pc = "except" /\ loc'[c].pc # "except"
          \/ loc[c].pc = "iter_top" /\ loc'[c].pc = "loop_returned"
          => ErrorsRecorded(state', c) = ErrorsRecorded(state, c) + 1 ]_vars

====
